---- MODULE Spec2Model ----
(***************************************************************************)
(* Employee-Utilization: the day-classification and aggregation engine     *)
(* (calculateEmployeeUtilization and its helpers), and the record the      *)
(* utilization hooks derive from its result for one employee.              *)
(*                                                                         *)
(* Representation.                                                         *)
(*  - A string is a sequence of one-character strings, so that             *)
(*    toLowerCase, trim, replace and includes are computed character by    *)
(*    character.                                                           *)
(*  - An instant (a JavaScript Date) is a record [day, tod]: the local     *)
(*    calendar day as a day number (day 0 is a Sunday) and the time of     *)
(*    day (0 is local midnight, EndOfDay is 23:59:59.999).                 *)
(*  - A date string "YYYY-MM-DD" is the day number; the lexicographic      *)
(*    order of such strings is the order of the day numbers.               *)
(*  - A category total is held as an integer number of 1/Scale days, where *)
(*    Scale is a common multiple of every possible status count, so that   *)
(*    1/N is exact.  The rounding error of the doubles of the source is    *)
(*    far below the 0.01 tolerance of the validation.                      *)
(***************************************************************************)
EXTENDS Integers, Sequences, FiniteSets, TLC

\* ------------------------------------------------------------------ bounds

WinLen == 3
WindowStartDay == 4
MaxEvents == 2
MaxSpan == 2
MaxHolidayEvents == 1
MaxTeamHolidayEvents == 2

\* ------------------------------------------------------------------ strings

UpperChars ==
  <<"A","B","C","D","E","F","G","H","I","J","K","L","M",
    "N","O","P","Q","R","S","T","U","V","W","X","Y","Z">>

LowerChars ==
  <<"a","b","c","d","e","f","g","h","i","j","k","l","m",
    "n","o","p","q","r","s","t","u","v","w","x","y","z">>

ToLowerChar(c) ==
  IF \E i \in 1..Len(UpperChars) : UpperChars[i] = c
    THEN LowerChars[CHOOSE i \in 1..Len(UpperChars) : UpperChars[i] = c]
    ELSE c

ToLowerCase(s) == [i \in 1..Len(s) |-> ToLowerChar(s[i])]

IsSpace(c) == c \in {" ", "\t"}

RECURSIVE TrimStart(_)
TrimStart(s) ==
  IF s # <<>> /\ IsSpace(Head(s)) THEN TrimStart(Tail(s)) ELSE s

RECURSIVE TrimEnd(_)
TrimEnd(s) ==
  IF s # <<>> /\ IsSpace(s[Len(s)]) THEN TrimEnd(SubSeq(s, 1, Len(s) - 1)) ELSE s

Trim(s) == TrimEnd(TrimStart(s))

ReplaceChar(s, from, to) == [i \in 1..Len(s) |-> IF s[i] = from THEN to ELSE s[i]]

\* s.replace(/\s+/g, ' '): every maximal run of whitespace becomes one space.
RECURSIVE CollapseSpaces(_)
CollapseSpaces(s) ==
  IF s = <<>> THEN <<>>
  ELSE IF IsSpace(Head(s))
    THEN <<" ">> \o CollapseSpaces(TrimStart(s))
    ELSE <<Head(s)>> \o CollapseSpaces(Tail(s))

Includes(s, sub) ==
  \E i \in 1..(Len(s) - Len(sub) + 1) : SubSeq(s, i, i + Len(sub) - 1) = sub

Range(s) == {s[i] : i \in 1..Len(s)}

\* ------------------------------------------------------------------ category keys

Field == <<"f","i","e","l","d">>
Office == <<"o","f","f","i","c","e">>
Vacation == <<"v","a","c","a","t","i","o","n">>
WorkFromHome == <<"w","o","r","k"," ","f","r","o","m"," ","h","o","m","e">>
Sick == <<"s","i","c","k">>
Overtime == <<"o","v","e","r","t","i","m","e">>
Holiday == <<"h","o","l","i","d","a","y">>
Unknown == <<"u","n","k","n","o","w","n">>
Wfh == <<"w","f","h">>

CanonicalCategories ==
  {Field, Office, Vacation, WorkFromHome, Sick, Overtime, Holiday, Unknown}

EXCLUDED_FROM_UTILIZATION == {"Jennifer Lengyel", "Liz Quinn", "Linda Torok"}

TechOnCall == <<"t","e","c","h"," ","o","n"," ","c","a","l","l">>
HolidayParty == <<"h","o","l","i","d","a","y"," ","p","a","r","t","y">>

\* ------------------------------------------------------------------ dates

EndOfDay == 2

NoDate == [day |-> -1, tod |-> -1]

LocalMidnight(d) == [day |-> d, tod |-> 0]

\* a < b on Date objects
DateBefore(a, b) == a.day < b.day \/ (a.day = b.day /\ a.tod < b.tod)

\* a <= b on Date objects
DateNotAfter(a, b) == ~DateBefore(b, a)

formatDate(date) == date.day

\* new Date(dateStr + 'T00:00:00')
ParseLocalDate(dateStr) == LocalMidnight(dateStr)

isWeekend(date) ==
  LET day == date.day % 7
  IN  day = 0 \/ day = 6

RECURSIVE DatesLoop(_, _, _)
DatesLoop(current, endDateOnly, dates) ==
  IF DateNotAfter(current, endDateOnly)
    THEN DatesLoop(LocalMidnight(current.day + 1), endDateOnly, Append(dates, current))
    ELSE dates

\* the enumeration from the instants themselves, times of day kept
getDatesBetweenInstants(startDate, endDate) == DatesLoop(startDate, endDate, <<>>)

getDatesBetween(startDate, endDate) ==
  LET startDateOnly == LocalMidnight(startDate.day)
      endDateOnly == LocalMidnight(endDate.day)
  IN  DatesLoop(startDateOnly, endDateOnly, <<>>)

\* ------------------------------------------------------------------ normalizeStatus

statusMap ==
  [k \in {Wfh, WorkFromHome, Field, Office, Vacation, Sick, Overtime, Holiday} |->
     IF k = Wfh THEN WorkFromHome ELSE k]

normalizeStatus(status) ==
  IF status = <<>> THEN Unknown
  ELSE LET normalized ==
             CollapseSpaces(
               ReplaceChar(ReplaceChar(Trim(ToLowerCase(status)), "_", " "), "-", " "))
       IN  IF normalized \in DOMAIN statusMap THEN statusMap[normalized] ELSE normalized

\* ------------------------------------------------------------------ engine state

\* 1/statusCount of a day, in units of 1/Scale
RECURSIVE Factorial(_)
Factorial(n) == IF n <= 1 THEN 1 ELSE n * Factorial(n - 1)

Scale == Factorial(MaxEvents)

DayFraction(statusCount) == Scale \div statusCount

NoName == "null"

excludeFromUnknownDays(employeeName) ==
  employeeName # NoName /\ employeeName \in EXCLUDED_FROM_UTILIZATION

isBeforeCreation(date, creationDate) ==
  creationDate # NoDate /\ DateBefore(date, creationDate)

\* the utilization object, the categoryDates sets and the holidayWarnings array
\* as they are at line 101-133
InitialState(dates) ==
  [utilization |->
     [totalDays |-> Len(dates), weekdays |-> 0, weekends |-> 0,
      categories |-> [c \in CanonicalCategories |-> [weekdays |-> 0, weekends |-> 0]]],
   categoryDates |-> [c \in CanonicalCategories |-> {}],
   holidayWarnings |-> <<>>]

\* Set.add on a Set kept in insertion order
SetAdd(seq, x) == IF x \in Range(seq) THEN seq ELSE Append(seq, x)

InWindow(date, normalizedStart, normalizedEnd) ==
  LET normalizedEventDate == LocalMidnight(date.day)
  IN  DateNotAfter(normalizedStart, normalizedEventDate)
      /\ DateNotAfter(normalizedEventDate, normalizedEnd)

RECURSIVE AddHolidayDates(_, _, _, _, _)
AddHolidayDates(holidayDates, eventDates, i, normalizedStart, normalizedEnd) ==
  IF i > Len(eventDates) THEN holidayDates
  ELSE AddHolidayDates(
         IF InWindow(eventDates[i], normalizedStart, normalizedEnd)
           THEN SetAdd(holidayDates, formatDate(eventDates[i]))
           ELSE holidayDates,
         eventDates, i + 1, normalizedStart, normalizedEnd)

RECURSIVE BuildHolidayDates(_, _, _, _, _)
BuildHolidayDates(holidayDates, holidayEvents, i, normalizedStart, normalizedEnd) ==
  IF i > Len(holidayEvents) THEN holidayDates
  ELSE LET event == holidayEvents[i]
       IN  BuildHolidayDates(
             IF Includes(ToLowerCase(event.title), HolidayParty)
               THEN holidayDates
               ELSE AddHolidayDates(holidayDates,
                                    getDatesBetween(event.start_dt, event.end_dt), 1,
                                    normalizedStart, normalizedEnd),
             holidayEvents, i + 1, normalizedStart, normalizedEnd)

\* CountDate initializing the weekend days as unknown like the weekdays
CountDateWeekendsUnknown(st, date, creationDate, exclude) ==
  IF isBeforeCreation(date, creationDate) THEN st
  ELSE IF exclude
    THEN [st EXCEPT !.utilization.weekdays = @ + 1]
    ELSE [st EXCEPT !.utilization.weekdays = @ + 1,
                    !.utilization.categories[Unknown].weekdays = @ + Scale,
                    !.categoryDates[Unknown] = @ \cup {formatDate(date)}]

\* one iteration of the dates.forEach of line 160-185
CountDate(st, date, creationDate, exclude) ==
  IF isBeforeCreation(date, creationDate) THEN st
  ELSE IF isWeekend(date)
    THEN [st EXCEPT !.utilization.weekends = @ + 1]
    ELSE IF exclude
      THEN [st EXCEPT !.utilization.weekdays = @ + 1]
      ELSE [st EXCEPT !.utilization.weekdays = @ + 1,
                      !.utilization.categories[Unknown].weekdays = @ + Scale,
                      !.categoryDates[Unknown] = @ \cup {formatDate(date)}]

RECURSIVE CountDates(_, _, _, _, _)
CountDates(st, dates, i, creationDate, exclude) ==
  IF i > Len(dates) THEN st
  ELSE CountDates(CountDate(st, dates[i], creationDate, exclude),
                  dates, i + 1, creationDate, exclude)

\* eventsByDate: the keys in insertion order, each with its array of statuses
HasKey(eventsByDate, dateStr) ==
  \E i \in 1..Len(eventsByDate) : eventsByDate[i].date = dateStr

PushStatus(eventsByDate, dateStr, status) ==
  IF HasKey(eventsByDate, dateStr)
    THEN [i \in 1..Len(eventsByDate) |->
            IF eventsByDate[i].date = dateStr
              THEN [eventsByDate[i] EXCEPT !.statuses = Append(@, status)]
              ELSE eventsByDate[i]]
    ELSE Append(eventsByDate, [date |-> dateStr, statuses |-> <<status>>])

RECURSIVE AddEventDates(_, _, _, _, _, _)
AddEventDates(eventsByDate, eventDates, i, status, normalizedStart, normalizedEnd) ==
  IF i > Len(eventDates) THEN eventsByDate
  ELSE AddEventDates(
         IF InWindow(eventDates[i], normalizedStart, normalizedEnd)
           THEN PushStatus(eventsByDate, formatDate(eventDates[i]), status)
           ELSE eventsByDate,
         eventDates, i + 1, status, normalizedStart, normalizedEnd)

\* GroupEvents without the skip of the tech on call events
RECURSIVE GroupEventsWithTechOnCall(_, _, _, _, _)
GroupEventsWithTechOnCall(eventsByDate, events, i, normalizedStart, normalizedEnd) ==
  IF i > Len(events) THEN eventsByDate
  ELSE LET event == events[i]
           rawStatus == IF event.status = <<>> THEN Unknown ELSE event.status
           status == normalizeStatus(rawStatus)
       IN  GroupEventsWithTechOnCall(
             AddEventDates(eventsByDate,
                           getDatesBetween(event.start_dt, event.end_dt), 1,
                           status, normalizedStart, normalizedEnd),
             events, i + 1, normalizedStart, normalizedEnd)

RECURSIVE GroupEvents(_, _, _, _, _)
GroupEvents(eventsByDate, events, i, normalizedStart, normalizedEnd) ==
  IF i > Len(events) THEN eventsByDate
  ELSE LET event == events[i]
           rawStatus == IF event.status = <<>> THEN Unknown ELSE event.status
           status == normalizeStatus(rawStatus)
       IN  GroupEvents(
             IF Includes(ToLowerCase(event.title), TechOnCall)
               THEN eventsByDate
               ELSE AddEventDates(eventsByDate,
                                  getDatesBetween(event.start_dt, event.end_dt), 1,
                                  status, normalizedStart, normalizedEnd),
             events, i + 1, normalizedStart, normalizedEnd)

\* [...new Set(statuses)]
RECURSIVE UniqueFrom(_, _, _)
UniqueFrom(statuses, i, acc) ==
  IF i > Len(statuses) THEN acc
  ELSE UniqueFrom(statuses, i + 1, SetAdd(acc, statuses[i]))

Unique(statuses) == UniqueFrom(statuses, 1, <<>>)

\* ------------------------------------------------------------------ day classification

\* Set.add on categoryDates[status], creating the Set of a new status
AddCategoryDate(categoryDates, status, dateStr) ==
  IF status \in DOMAIN categoryDates
    THEN [categoryDates EXCEPT ![status] = @ \cup {dateStr}]
    ELSE categoryDates @@ (status :> {dateStr})

\* categories[status].weekdays += dayFraction, creating the entry of a new status
AddCategoryWeekdays(categories, status, dayFraction) ==
  IF status \in DOMAIN categories
    THEN [categories EXCEPT ![status].weekdays = @ + dayFraction]
    ELSE categories @@ (status :> [weekdays |-> dayFraction, weekends |-> 0])

RemoveFromUnknown(st, dateStr, exclude) ==
  IF exclude THEN st
  ELSE [st EXCEPT !.categoryDates[Unknown] = @ \ {dateStr}]

\* WeekendVacation counting a whole day whatever the number of statuses
WeekendVacationWholeDay(st, dateStr, uniqueStatuses, exclude) ==
  [st EXCEPT !.utilization.categories[Vacation].weekends = @ + Scale,
             !.categoryDates[Vacation] = @ \cup {dateStr}]

\* line 239-255: a weekend day with 'vacation' among its statuses
WeekendVacation(st, dateStr, uniqueStatuses, exclude) ==
  LET st1 == IF ~exclude /\ st.utilization.categories[Unknown].weekdays > 0
               THEN [st EXCEPT !.utilization.categories[Unknown].weekdays = @ - Scale,
                               !.categoryDates[Unknown] = @ \ {dateStr}]
               ELSE st
      dayFraction == DayFraction(Len(uniqueStatuses))
  IN  [st1 EXCEPT !.utilization.categories[Vacation].weekends = @ + dayFraction,
                  !.categoryDates[Vacation] = @ \cup {dateStr}]

\* WeekendOvertime counting the day in overtime.weekdays
WeekendOvertimeAsWeekday(st, dateStr) ==
  [st EXCEPT !.utilization.categories[Overtime].weekdays = @ + Scale,
             !.categoryDates[Overtime] = @ \cup {dateStr}]

\* line 256-260: a weekend day without 'vacation'
WeekendOvertime(st, dateStr) ==
  [st EXCEPT !.utilization.categories[Overtime].weekends = @ + Scale,
             !.categoryDates[Overtime] = @ \cup {dateStr}]

\* HolidayVacation leaving the date in the unknown set
HolidayVacationStaysUnknown(st, dateStr, exclude) ==
  [st EXCEPT !.utilization.categories[Holiday].weekdays = @ + Scale,
             !.categoryDates[Holiday] = @ \cup {dateStr}]

\* line 267-275: a holiday weekday with 'vacation' among its statuses
HolidayVacation(st, dateStr, exclude) ==
  RemoveFromUnknown(
    [st EXCEPT !.utilization.categories[Holiday].weekdays = @ + Scale,
               !.categoryDates[Holiday] = @ \cup {dateStr}],
    dateStr, exclude)

\* HolidayOvertime counting the day as a day in the field
HolidayOvertimeAsField(st, dateStr, exclude) ==
  RemoveFromUnknown(
    [st EXCEPT !.utilization.categories[Field].weekdays = @ + Scale,
               !.categoryDates[Field] = @ \cup {dateStr}],
    dateStr, exclude)

\* line 280-287: a holiday weekday worked in the field or the office
HolidayOvertime(st, dateStr, exclude) ==
  RemoveFromUnknown(
    [st EXCEPT !.utilization.categories[Overtime].weekdays = @ + Scale,
               !.categoryDates[Overtime] = @ \cup {dateStr}],
    dateStr, exclude)

\* line 288-297: a holiday weekday with other statuses only
HolidayWarning(st, dateStr, uniqueStatuses) ==
  [st EXCEPT !.holidayWarnings =
     Append(@, [date |-> dateStr, statuses |-> uniqueStatuses])]

\* HolidayOnly leaving the date in the unknown set
HolidayOnlyStaysUnknown(st, dateStr, exclude) ==
  [st EXCEPT !.utilization.categories[Holiday].weekdays = @ + Scale,
             !.categoryDates[Holiday] = @ \cup {dateStr}]

\* line 299-306: a holiday weekday whose key has no status
HolidayOnly(st, dateStr, exclude) ==
  RemoveFromUnknown(
    [st EXCEPT !.utilization.categories[Holiday].weekdays = @ + Scale,
               !.categoryDates[Holiday] = @ \cup {dateStr}],
    dateStr, exclude)

\* line 311-328: the uniqueStatuses.forEach of a regular weekday
RECURSIVE SplitDay(_, _, _, _, _)
SplitDay(st, dateStr, uniqueStatuses, i, dayFraction) ==
  IF i > Len(uniqueStatuses) THEN st
  ELSE SplitDay(
         [st EXCEPT !.categoryDates = AddCategoryDate(@, uniqueStatuses[i], dateStr),
                    !.utilization.categories =
                       AddCategoryWeekdays(@, uniqueStatuses[i], dayFraction)],
         dateStr, uniqueStatuses, i + 1, dayFraction)

\* RegularDay leaving the date in the unknown set
RegularDayStaysUnknown(st, dateStr, uniqueStatuses, exclude) ==
  SplitDay(st, dateStr, uniqueStatuses, 1, DayFraction(Len(uniqueStatuses)))

\* line 307-334: a weekday that is no holiday and has statuses
RegularDay(st, dateStr, uniqueStatuses, exclude) ==
  RemoveFromUnknown(
    SplitDay(st, dateStr, uniqueStatuses, 1, DayFraction(Len(uniqueStatuses))),
    dateStr, exclude)

\* ProcessDate without the skip of the dates before the enrollment
ProcessDateBeforeEnrollment(st, dateStr, statuses, holidayDates, creationDate, exclude) ==
  LET date == ParseLocalDate(dateStr)
      isWeekendDay == isWeekend(date)
      isHoliday == dateStr \in Range(holidayDates)
      uniqueStatuses == Unique(statuses)
      statusCount == Len(uniqueStatuses)
      hasVacation == Vacation \in Range(uniqueStatuses)
      hasFieldOrOffice == \E i \in 1..statusCount :
                             uniqueStatuses[i] = Field \/ uniqueStatuses[i] = Office
  IN  IF isWeekendDay
        THEN IF hasVacation
               THEN WeekendVacation(st, dateStr, uniqueStatuses, exclude)
               ELSE WeekendOvertime(st, dateStr)
        ELSE IF isHoliday /\ statusCount > 0
          THEN IF hasVacation THEN HolidayVacation(st, dateStr, exclude)
               ELSE IF hasFieldOrOffice THEN HolidayOvertime(st, dateStr, exclude)
               ELSE HolidayWarning(st, dateStr, uniqueStatuses)
          ELSE IF isHoliday THEN HolidayOnly(st, dateStr, exclude)
          ELSE IF statusCount > 0 THEN RegularDay(st, dateStr, uniqueStatuses, exclude)
          ELSE st

\* line 219-336: one iteration of Object.keys(eventsByDate).forEach
ProcessDate(st, dateStr, statuses, holidayDates, creationDate, exclude) ==
  LET date == ParseLocalDate(dateStr)
      isWeekendDay == isWeekend(date)
      isHoliday == dateStr \in Range(holidayDates)
      uniqueStatuses == Unique(statuses)
      statusCount == Len(uniqueStatuses)
      hasVacation == Vacation \in Range(uniqueStatuses)
      hasFieldOrOffice == \E i \in 1..statusCount :
                             uniqueStatuses[i] = Field \/ uniqueStatuses[i] = Office
  IN  IF isBeforeCreation(date, creationDate) THEN st
      ELSE IF isWeekendDay
        THEN IF hasVacation
               THEN WeekendVacation(st, dateStr, uniqueStatuses, exclude)
               ELSE WeekendOvertime(st, dateStr)
        ELSE IF isHoliday /\ statusCount > 0
          THEN IF hasVacation THEN HolidayVacation(st, dateStr, exclude)
               ELSE IF hasFieldOrOffice THEN HolidayOvertime(st, dateStr, exclude)
               ELSE HolidayWarning(st, dateStr, uniqueStatuses)
          ELSE IF isHoliday THEN HolidayOnly(st, dateStr, exclude)
          ELSE IF statusCount > 0 THEN RegularDay(st, dateStr, uniqueStatuses, exclude)
          ELSE st

\* ProcessHoliday without the skip of the weekend days
ProcessHolidayOnWeekends(st, dateStr, eventsByDate, creationDate, exclude) ==
  LET date == ParseLocalDate(dateStr)
  IN  IF isBeforeCreation(date, creationDate) THEN st
      ELSE IF ~HasKey(eventsByDate, dateStr)
                /\ dateStr \notin st.categoryDates[Overtime]
                /\ dateStr \notin st.categoryDates[Holiday]
        THEN [st EXCEPT !.utilization.categories[Holiday].weekdays = @ + Scale,
                        !.categoryDates[Holiday] = @ \cup {dateStr},
                        !.categoryDates[Unknown] =
                           IF exclude THEN @ ELSE @ \ {dateStr}]
        ELSE st

\* line 339-360: one iteration of holidayDates.forEach
ProcessHoliday(st, dateStr, eventsByDate, creationDate, exclude) ==
  LET date == ParseLocalDate(dateStr)
  IN  IF isBeforeCreation(date, creationDate) \/ isWeekend(date) THEN st
      ELSE IF ~HasKey(eventsByDate, dateStr)
                /\ dateStr \notin st.categoryDates[Overtime]
                /\ dateStr \notin st.categoryDates[Holiday]
        THEN HolidayOnly(st, dateStr, exclude)
        ELSE st

\* ------------------------------------------------------------------ validation and output

Abs(a) == IF a >= 0 THEN a ELSE 0 - a

\* Array.prototype.sort() on an array of date strings
SortDates(seq) == SortSeq(seq, LAMBDA a, b : a < b)

\* Array.from(set).sort()
RECURSIVE SortedArrayFrom(_)
SortedArrayFrom(set) ==
  IF set = {} THEN <<>>
  ELSE LET least == CHOOSE x \in set : \A y \in set : x <= y
       IN  <<least>> \o SortedArrayFrom(set \ {least})

\* AssignedDates without the dates of the holiday warnings
AssignedDatesWithoutWarnings(st) ==
  UNION {st.categoryDates[category] : category \in DOMAIN st.categoryDates}

\* line 365-376
AssignedDates(st) ==
  UNION {st.categoryDates[category] : category \in DOMAIN st.categoryDates}
    \cup {st.holidayWarnings[i].date : i \in 1..Len(st.holidayWarnings)}

\* line 379-394: the dates of the window that are expected and not assigned
RECURSIVE FindUnaccounted(_, _, _, _, _)
FindUnaccounted(unaccountedDates, dates, i, assignedDates, creationDate) ==
  IF i > Len(dates) THEN unaccountedDates
  ELSE FindUnaccounted(
         IF ~isBeforeCreation(dates[i], creationDate) /\ ~isWeekend(dates[i])
              /\ formatDate(dates[i]) \notin assignedDates
           THEN Append(unaccountedDates, formatDate(dates[i]))
           ELSE unaccountedDates,
         dates, i + 1, assignedDates, creationDate)

\* line 400-408: the weekday totals the validation adds up
TotalWeekdayCategories(categories) ==
  categories[Field].weekdays + categories[Office].weekdays
    + categories[WorkFromHome].weekdays + categories[Vacation].weekdays
    + categories[Sick].weekdays + categories[Holiday].weekdays
    + categories[Overtime].weekdays + categories[Unknown].weekdays

\* difference <= 0.01, the totals being in units of 1/Scale
WithinTolerance(difference) == 100 * difference <= Scale

\* Finish without the recount of line 397: the unknown total is the counter
\* the processing left, raised to zero by line 363
FinishWithoutRecount(st, dates, creationDate) ==
  LET unaccountedDates ==
        FindUnaccounted(<<>>, dates, 1, AssignedDates(st), creationDate)
      unknownSet == st.categoryDates[Unknown] \cup Range(unaccountedDates)
      st1 == [st EXCEPT !.categoryDates[Unknown] = unknownSet,
                        !.utilization.categories[Unknown].weekdays =
                           IF @ < 0 THEN 0 ELSE @]
      categories == st1.utilization.categories
      totalWeekdayCategories == TotalWeekdayCategories(categories)
      difference == Abs(totalWeekdayCategories - st1.utilization.weekdays * Scale)
      categoryDatesArrays ==
        [category \in DOMAIN st1.categoryDates |->
           SortedArrayFrom(st1.categoryDates[category])]
  IN  [state |-> st1,
       output |->
         [utilization |-> st1.utilization,
          validationInfo |->
            [isValid |-> WithinTolerance(difference),
             difference |-> difference,
             totalWeekdayCategories |-> totalWeekdayCategories,
             expectedWeekdays |-> st1.utilization.weekdays,
             unaccountedDates |-> SortDates(unaccountedDates),
             categoryBreakdown |->
               [c \in {Field, Office, WorkFromHome, Vacation, Sick, Holiday, Unknown} |->
                  categories[c].weekdays]],
          unknownDates |->
            SortedArrayFrom(Range(categoryDatesArrays[Unknown]) \cup Range(unaccountedDates)),
          categoryDates |-> categoryDatesArrays,
          holidayWarnings |->
            SortSeq(st1.holidayWarnings, LAMBDA a, b : a.date < b.date)]]

\* line 362-449: the end of calculateEmployeeUtilization; the engine state as it
\* is left, and the record that is returned.  The Math.max(0, ...) of line 363 is
\* overwritten by the recount of line 397 before anything reads it.
Finish(st, dates, creationDate) ==
  LET unaccountedDates ==
        FindUnaccounted(<<>>, dates, 1, AssignedDates(st), creationDate)
      unknownSet == st.categoryDates[Unknown] \cup Range(unaccountedDates)
      st1 == [st EXCEPT !.categoryDates[Unknown] = unknownSet,
                        !.utilization.categories[Unknown].weekdays =
                           Scale * Cardinality(unknownSet)]
      categories == st1.utilization.categories
      totalWeekdayCategories == TotalWeekdayCategories(categories)
      difference == Abs(totalWeekdayCategories - st1.utilization.weekdays * Scale)
      categoryDatesArrays ==
        [category \in DOMAIN st1.categoryDates |->
           SortedArrayFrom(st1.categoryDates[category])]
  IN  [state |-> st1,
       output |->
         [utilization |-> st1.utilization,
          validationInfo |->
            [isValid |-> WithinTolerance(difference),
             difference |-> difference,
             totalWeekdayCategories |-> totalWeekdayCategories,
             expectedWeekdays |-> st1.utilization.weekdays,
             unaccountedDates |-> SortDates(unaccountedDates),
             categoryBreakdown |->
               [c \in {Field, Office, WorkFromHome, Vacation, Sick, Holiday, Unknown} |->
                  categories[c].weekdays]],
          unknownDates |->
            SortedArrayFrom(Range(categoryDatesArrays[Unknown]) \cup Range(unaccountedDates)),
          categoryDates |-> categoryDatesArrays,
          holidayWarnings |->
            SortSeq(st1.holidayWarnings, LAMBDA a, b : a.date < b.date)]]

\* ------------------------------------------------------------------ the whole function

NormalizedStart(startDate) == LocalMidnight(startDate.day)

NormalizedEnd(endDate) == [day |-> endDate.day, tod |-> EndOfDay]

RECURSIVE ProcessDates(_, _, _, _, _, _)
ProcessDates(st, eventsByDate, i, holidayDates, creationDate, exclude) ==
  IF i > Len(eventsByDate) THEN st
  ELSE ProcessDates(
         ProcessDate(st, eventsByDate[i].date, eventsByDate[i].statuses,
                     holidayDates, creationDate, exclude),
         eventsByDate, i + 1, holidayDates, creationDate, exclude)

RECURSIVE ProcessHolidays(_, _, _, _, _, _)
ProcessHolidays(st, holidayDates, i, eventsByDate, creationDate, exclude) ==
  IF i > Len(holidayDates) THEN st
  ELSE ProcessHolidays(
         ProcessHoliday(st, holidayDates[i], eventsByDate, creationDate, exclude),
         holidayDates, i + 1, eventsByDate, creationDate, exclude)

calculateEmployeeUtilization(events, startDate, endDate, employeeName, creationDate, holidayEvents) ==
  LET dates == getDatesBetween(startDate, endDate)
      exclude == excludeFromUnknownDays(employeeName)
      normalizedStart == NormalizedStart(startDate)
      normalizedEnd == NormalizedEnd(endDate)
      holidayDates == BuildHolidayDates(<<>>, holidayEvents, 1, normalizedStart, normalizedEnd)
      st0 == CountDates(InitialState(dates), dates, 1, creationDate, exclude)
      eventsByDate == GroupEvents(<<>>, events, 1, normalizedStart, normalizedEnd)
      st1 == ProcessDates(st0, eventsByDate, 1, holidayDates, creationDate, exclude)
      st2 == ProcessHolidays(st1, holidayDates, 1, eventsByDate, creationDate, exclude)
  IN  Finish(st2, dates, creationDate).output

\* ------------------------------------------------------------------ inputs

JobTitle == <<"J","o","b">>
TechOnCallTitle == <<"T","e","c","h"," ","O","n"," ","C","a","l","l">>
HolidayTitle == <<"X","m","a","s">>
HolidayPartyTitle == <<"H","o","l","i","d","a","y"," ","P","a","r","t","y">>

FieldLabel == <<"F","i","e","l","d">>
SocialLabel == <<"s","o","c","i","a","l">>
Social == SocialLabel

\* the status labels of the events: none, and labels the normalizer maps to
\* field, vacation and the ad-hoc category social
RawLabels == {<<>>, FieldLabel, Vacation, SocialLabel}

WindowDays == WindowStartDay..(WindowStartDay + WinLen - 1)

Daytime == EndOfDay - 1

Spans ==
  {[start_dt |-> [day |-> d, tod |-> Daytime],
    end_dt |-> [day |-> d + n - 1, tod |-> Daytime]] : d \in WindowDays, n \in 1..MaxSpan}

MakeEvent(title, status, span) ==
  [title |-> title, status |-> status, start_dt |-> span.start_dt, end_dt |-> span.end_dt]

EmployeeEvents ==
  {MakeEvent(JobTitle, label, span) : label \in RawLabels, span \in Spans}
    \cup {MakeEvent(TechOnCallTitle, <<>>, span) : span \in Spans}

HolidayEvents ==
  {MakeEvent(title, <<>>, span) :
     title \in {HolidayTitle, HolidayPartyTitle},
     span \in {sp \in Spans : sp.start_dt.day = sp.end_dt.day}}

BoundedSeq(S, n) == UNION {[1..k -> S] : k \in 0..n}

EmployeeNames == {"Liz Quinn", "Alex Reed"}

CreationDates ==
  {NoDate} \cup {[day |-> WindowStartDay + 1, tod |-> t] : t \in {0, Daytime}}

\* the inputs of the hook's calls: the labels of the utilized categories and of
\* vacation, events of one day, several holiday events, an enrollment on the last
\* day of the window or after it
OfficeLabel == <<"O","f","f","i","c","e">>
WfhLabel == <<"W","F","H">>

TeamLabels == {OfficeLabel, WfhLabel, FieldLabel, Vacation}

DaySpans == {sp \in Spans : sp.start_dt.day = sp.end_dt.day}

TeamEvents ==
  {MakeEvent(JobTitle, label, span) : label \in TeamLabels, span \in DaySpans}
    \cup {MakeEvent(TechOnCallTitle, <<>>, span) : span \in DaySpans}

TeamHolidayEvents == {MakeEvent(HolidayTitle, <<>>, span) : span \in DaySpans}

TeamCreationDates ==
  {NoDate} \cup {LocalMidnight(WindowStartDay + WinLen - 1 + n) : n \in {0, 1}}

\* the inputs of the calls on the longer window: events of one day with the
\* labels of the utilized categories, a holiday on its first day, an enrollment
\* on its last day or after it
WeekStartDay == WindowStartDay - 1

WeekEndDay == WindowStartDay + WinLen - 1

WeekEvents ==
  {MakeEvent(JobTitle, label,
             [start_dt |-> [day |-> d, tod |-> Daytime],
              end_dt |-> [day |-> d, tod |-> Daytime]]) :
     label \in {OfficeLabel, WfhLabel, FieldLabel}, d \in WeekStartDay..WeekEndDay}

WeekHolidayEvents ==
  {MakeEvent(HolidayTitle, <<>>,
             [start_dt |-> [day |-> WeekStartDay, tod |-> Daytime],
              end_dt |-> [day |-> WeekStartDay, tod |-> Daytime]])}

WeekCreationDates == {NoDate} \cup {LocalMidnight(WeekEndDay + n) : n \in {0, 1}}

\* ------------------------------------------------------------------ the employee record

Digits == <<"0","1","2","3","4","5","6","7","8","9">>

\* the decimal digits of a natural number
RECURSIVE NatToString(_)
NatToString(n) ==
  IF n < 10 THEN <<Digits[n + 1]>>
  ELSE NatToString(n \div 10) \o <<Digits[(n % 10) + 1]>>

\* ToFixed1 cutting the digits after the first decimal
ToFixed1Truncated(num, den) ==
  LET tenths == (10 * num) \div den
  IN  NatToString(tenths \div 10) \o <<".">> \o <<Digits[(tenths % 10) + 1]>>

\* (num / den).toFixed(1) for num >= 0 and den > 0: the nearest number of
\* tenths, the larger one of two that are as near
ToFixed1(num, den) ==
  LET tenths == (20 * num + den) \div (2 * den)
  IN  NatToString(tenths \div 10) \o <<".">> \o <<Digits[(tenths % 10) + 1]>>

ZeroPercent == <<"0",".","0">>

\* (0 / 0 * 100).toFixed(1)
NaNString == <<"N","a","N">>

\* UtilizationRecord treating every employee as a regular one
UtilizationRecordForAll(result, name) ==
  LET categories == result.utilization.categories
      weekdayUtilized ==
        categories[Field].weekdays + categories[Office].weekdays
          + categories[WorkFromHome].weekdays
      weekendUtilized == categories[Overtime].weekends
      weekdayTotal == result.utilization.weekdays
      weekendTotal == result.utilization.weekends
  IN  [isExcludedFromUtilization |-> name \in EXCLUDED_FROM_UTILIZATION,
       weekdayUtilized |-> weekdayUtilized,
       weekdayTotal |-> weekdayTotal,
       weekdayUtilizationPercentage |->
         IF weekdayTotal > 0
           THEN ToFixed1(100 * weekdayUtilized, Scale * weekdayTotal)
           ELSE ZeroPercent,
       weekendUtilized |-> weekendUtilized,
       weekendTotal |-> weekendTotal,
       weekendUtilizationPercentage |->
         IF weekendTotal > 0
           THEN ToFixed1(100 * weekendUtilized, Scale * weekendTotal)
           ELSE ZeroPercent,
       totalUtilized |-> weekdayUtilized + weekendUtilized,
       utilizationPercentage |->
         IF result.utilization.totalDays > 0
           THEN ToFixed1(100 * (weekdayUtilized + weekendUtilized),
                         Scale * result.utilization.totalDays)
           ELSE NaNString]

\* line 532-566 (and 617-651): what the hooks derive from the result for one
\* employee; the utilized days are in units of 1/Scale
UtilizationRecord(result, name) ==
  LET categories == result.utilization.categories
      isExcludedFromUtilization == name \in EXCLUDED_FROM_UTILIZATION
      weekdayUtilized ==
        IF isExcludedFromUtilization
          THEN categories[WorkFromHome].weekdays
          ELSE categories[Field].weekdays + categories[Office].weekdays
                 + categories[WorkFromHome].weekdays
      weekendUtilized ==
        IF isExcludedFromUtilization THEN 0 ELSE categories[Overtime].weekends
      weekdayTotal == result.utilization.weekdays
      weekendTotal == result.utilization.weekends
  IN  [isExcludedFromUtilization |-> isExcludedFromUtilization,
       weekdayUtilized |-> weekdayUtilized,
       weekdayTotal |-> weekdayTotal,
       weekdayUtilizationPercentage |->
         IF weekdayTotal > 0
           THEN ToFixed1(100 * weekdayUtilized, Scale * weekdayTotal)
           ELSE ZeroPercent,
       weekendUtilized |-> weekendUtilized,
       weekendTotal |-> weekendTotal,
       weekendUtilizationPercentage |->
         IF weekendTotal > 0
           THEN ToFixed1(100 * weekendUtilized, Scale * weekendTotal)
           ELSE ZeroPercent,
       totalUtilized |-> weekdayUtilized + weekendUtilized,
       utilizationPercentage |->
         IF result.utilization.totalDays > 0
           THEN ToFixed1(100 * (weekdayUtilized + weekendUtilized),
                         Scale * result.utilization.totalDays)
           ELSE NaNString]

\* ------------------------------------------------------------------ the older engine

\* teamupService.js line 65-79: the categories of the older utilization object
OlderCategories == {Field, Office, Vacation, WorkFromHome, Sick, Overtime, Unknown}

\* teamupService.js line 39-41: date.toISOString().split('T')[0], the time zone
\* being UTC
formatDateOlder(date) == date.day

\* teamupService.js line 50-61: the dates keep the time of day of the start
RECURSIVE DatesLoopOlder(_, _, _)
DatesLoopOlder(current, end, dates) ==
  IF DateNotAfter(current, end)
    THEN DatesLoopOlder([current EXCEPT !.day = @ + 1], end, Append(dates, current))
    ELSE dates

getDatesBetweenOlder(startDate, endDate) == DatesLoopOlder(startDate, endDate, <<>>)

\* teamupService.js line 87-110
RECURSIVE CountDatesOlder(_, _, _, _, _)
CountDatesOlder(u, dates, i, creationDate, exclude) ==
  IF i > Len(dates) THEN u
  ELSE CountDatesOlder(
         IF isBeforeCreation(dates[i], creationDate) THEN u
         ELSE IF isWeekend(dates[i]) THEN [u EXCEPT !.weekends = @ + 1]
         ELSE IF exclude THEN [u EXCEPT !.weekdays = @ + 1]
         ELSE [u EXCEPT !.weekdays = @ + 1,
                        !.categories[Unknown].weekdays = @ + Scale],
         dates, i + 1, creationDate, exclude)

\* teamupService.js line 121-130
RECURSIVE AddEventDatesOlder(_, _, _, _, _, _)
AddEventDatesOlder(eventsByDate, eventDates, i, status, startDate, endDate) ==
  IF i > Len(eventDates) THEN eventsByDate
  ELSE AddEventDatesOlder(
         IF DateNotAfter(startDate, eventDates[i]) /\ DateNotAfter(eventDates[i], endDate)
           THEN PushStatus(eventsByDate, formatDateOlder(eventDates[i]), status)
           ELSE eventsByDate,
         eventDates, i + 1, status, startDate, endDate)

\* teamupService.js line 115-131
RECURSIVE GroupEventsOlder(_, _, _, _, _)
GroupEventsOlder(eventsByDate, events, i, startDate, endDate) ==
  IF i > Len(events) THEN eventsByDate
  ELSE LET event == events[i]
           status == IF event.status = <<>> THEN Unknown ELSE event.status
       IN  GroupEventsOlder(
             AddEventDatesOlder(eventsByDate,
                                getDatesBetweenOlder(event.start_dt, event.end_dt), 1,
                                status, startDate, endDate),
             events, i + 1, startDate, endDate)

\* teamupService.js line 162-171
RECURSIVE SplitDayOlder(_, _, _, _)
SplitDayOlder(u, uniqueStatuses, i, dayFraction) ==
  IF i > Len(uniqueStatuses) THEN u
  ELSE SplitDayOlder(
         [u EXCEPT !.categories =
            IF uniqueStatuses[i] \in DOMAIN @
              THEN [@ EXCEPT ![uniqueStatuses[i]].weekdays = @ + dayFraction]
              ELSE @ @@ (uniqueStatuses[i] :> [weekdays |-> dayFraction, weekends |-> 0])],
         uniqueStatuses, i + 1, dayFraction)

\* teamupService.js line 134-173: one iteration of Object.keys(eventsByDate).forEach
ProcessDateOlder(u, dateStr, statuses, creationDate, exclude) ==
  LET date == LocalMidnight(dateStr)
      uniqueStatuses == Unique(statuses)
      statusCount == Len(uniqueStatuses)
  IN  IF isBeforeCreation(date, creationDate) THEN u
      ELSE IF isWeekend(date)
        THEN [u EXCEPT !.categories[Overtime].weekends = @ + Scale]
      ELSE SplitDayOlder(
             IF ~exclude /\ u.categories[Unknown].weekdays > 0
               THEN [u EXCEPT !.categories[Unknown].weekdays = @ - Scale]
               ELSE u,
             uniqueStatuses, 1, DayFraction(statusCount))

RECURSIVE ProcessDatesOlder(_, _, _, _, _)
ProcessDatesOlder(u, eventsByDate, i, creationDate, exclude) ==
  IF i > Len(eventsByDate) THEN u
  ELSE ProcessDatesOlder(
         ProcessDateOlder(u, eventsByDate[i].date, eventsByDate[i].statuses,
                          creationDate, exclude),
         eventsByDate, i + 1, creationDate, exclude)

\* category?.weekdays || 0
WeekdaysOrZero(categories, c) == IF c \in DOMAIN categories THEN categories[c].weekdays ELSE 0

\* teamupService.js line 176-206
FinishOlder(u0) ==
  LET u == [u0 EXCEPT !.categories[Unknown].weekdays = IF @ < 0 THEN 0 ELSE @]
      categories == u.categories
      totalWeekdayCategories ==
        WeekdaysOrZero(categories, Field) + WeekdaysOrZero(categories, Office)
          + WeekdaysOrZero(categories, WorkFromHome) + WeekdaysOrZero(categories, Vacation)
          + WeekdaysOrZero(categories, Sick) + WeekdaysOrZero(categories, Unknown)
      difference == Abs(totalWeekdayCategories - u.weekdays * Scale)
  IN  [utilization |-> u,
       validationInfo |->
         [isValid |-> WithinTolerance(difference),
          difference |-> difference,
          totalWeekdayCategories |-> totalWeekdayCategories,
          expectedWeekdays |-> u.weekdays,
          categoryBreakdown |->
            [c \in {Field, Office, WorkFromHome, Vacation, Sick, Unknown} |->
               WeekdaysOrZero(categories, c)]]]

\* teamupService.js line 64-207
calculateEmployeeUtilizationOlder(events, startDate, endDate, employeeName, creationDate) ==
  LET dates == getDatesBetweenOlder(startDate, endDate)
      exclude == excludeFromUnknownDays(employeeName)
      u0 == [totalDays |-> Len(dates), weekdays |-> 0, weekends |-> 0,
             categories |-> [c \in OlderCategories |-> [weekdays |-> 0, weekends |-> 0]]]
      counted == CountDatesOlder(u0, dates, 1, creationDate, exclude)
      eventsByDate == GroupEventsOlder(<<>>, events, 1, startDate, endDate)
  IN  FinishOlder(ProcessDatesOlder(counted, eventsByDate, 1, creationDate, exclude))

\* ------------------------------------------------------------------ state machine

VARIABLES events, holidayEvents, startDate, endDate, employeeName, creationDate,
          pc, dates, holidayDates, eventsByDate, dateIndex, holidayIndex,
          utilization, categoryDates, holidayWarnings, output, record, hook,
          route, chart, older

inputs == <<events, holidayEvents, startDate, endDate, employeeName, creationDate>>

vars == <<events, holidayEvents, startDate, endDate, employeeName, creationDate,
          pc, dates, holidayDates, eventsByDate, dateIndex, holidayIndex,
          utilization, categoryDates, holidayWarnings, output, record, hook,
          route, chart, older>>

NoOutput == [returned |-> FALSE]

NoRecord == [derived |-> FALSE]

\* a call of the engine outside the loop of useAllEmployeesUtilization
NoHook == [mapping |-> FALSE]

\* no page of the application is mounted
NoRoute == [mounted |-> FALSE]

\* the chart is not mounted
NoChart == [mounted |-> FALSE]

\* the state of the components
ui == <<route, chart>>

NoComponents == route = NoRoute /\ chart = NoChart

\* the older engine has not been called
NoOlder == [returned |-> FALSE]

\* the three objects the engine mutates, as one record
EngineState ==
  [utilization |-> utilization, categoryDates |-> categoryDates,
   holidayWarnings |-> holidayWarnings]

SetEngineState(st) ==
  /\ utilization' = st.utilization
  /\ categoryDates' = st.categoryDates
  /\ holidayWarnings' = st.holidayWarnings

exclude == excludeFromUnknownDays(employeeName)

\* where the function is after its preparation, or after one of its loops
PhaseAfter(phase, nKeys, nHolidays) ==
  IF phase = "prepare" /\ nKeys > 0 THEN "dates"
  ELSE IF phase \in {"prepare", "dates"} /\ nHolidays > 0 THEN "holidays"
  ELSE "finish"

\* the objects declared at line 100-133
Declarations ==
  /\ pc = "prepare"
  /\ dates = getDatesBetween(startDate, endDate)
  /\ holidayDates = <<>>
  /\ eventsByDate = <<>>
  /\ dateIndex = 1
  /\ holidayIndex = 1
  /\ utilization = InitialState(dates).utilization
  /\ categoryDates = InitialState(dates).categoryDates
  /\ holidayWarnings = <<>>
  /\ output = NoOutput
  /\ record = NoRecord

\* the call: the arguments, and the objects declared at line 100-133
Init ==
  /\ events \in BoundedSeq(EmployeeEvents, MaxEvents)
  /\ holidayEvents \in BoundedSeq(HolidayEvents, MaxHolidayEvents)
  /\ startDate = LocalMidnight(WindowStartDay)
  /\ endDate = LocalMidnight(WindowStartDay + WinLen - 1)
  /\ employeeName \in EmployeeNames
  /\ creationDate \in CreationDates
  /\ Declarations
  /\ hook = NoHook
  /\ NoComponents
  /\ older = NoOlder

\* the call of the hooks on the events of the team
InitTeam ==
  /\ events \in BoundedSeq(TeamEvents, MaxEvents)
  /\ holidayEvents \in BoundedSeq(TeamHolidayEvents, MaxTeamHolidayEvents)
  /\ startDate = LocalMidnight(WindowStartDay)
  /\ endDate = LocalMidnight(WindowStartDay + WinLen - 1)
  /\ employeeName \in EmployeeNames
  /\ creationDate \in TeamCreationDates
  /\ Declarations
  /\ hook = NoHook
  /\ NoComponents
  /\ older = NoOlder

\* the call of the hooks on a window that begins a day earlier and ends with the
\* same day, or on the empty window of a custom range that ends before it
\* begins
InitWeek ==
  /\ events \in BoundedSeq(WeekEvents, MaxEvents)
  /\ holidayEvents \in BoundedSeq(WeekHolidayEvents, MaxHolidayEvents)
  /\ startDate = LocalMidnight(WeekStartDay)
  /\ endDate \in {LocalMidnight(WeekStartDay - 1), LocalMidnight(WeekEndDay)}
  /\ employeeName \in EmployeeNames
  /\ creationDate \in WeekCreationDates
  /\ Declarations
  /\ hook = NoHook
  /\ NoComponents
  /\ older = NoOlder

\* line 135-216: the holiday dates, the counting of the days, the grouping of the
\* events by date
Prepare ==
  /\ pc = "prepare"
  /\ LET normalizedStart == NormalizedStart(startDate)
         normalizedEnd == NormalizedEnd(endDate)
         hd == BuildHolidayDates(<<>>, holidayEvents, 1, normalizedStart, normalizedEnd)
         ebd == GroupEvents(<<>>, events, 1, normalizedStart, normalizedEnd)
     IN  /\ holidayDates' = hd
         /\ eventsByDate' = ebd
         /\ SetEngineState(CountDates(EngineState, dates, 1, creationDate, exclude))
         /\ pc' = PhaseAfter("prepare", Len(ebd), Len(hd))
  /\ UNCHANGED <<inputs, dates, dateIndex, holidayIndex, output, record, hook, ui, older>>

\* line 219-336: the next key of eventsByDate
ProcessDateStep ==
  /\ pc = "dates"
  /\ SetEngineState(ProcessDate(EngineState, eventsByDate[dateIndex].date,
                                eventsByDate[dateIndex].statuses,
                                holidayDates, creationDate, exclude))
  /\ dateIndex' = dateIndex + 1
  /\ pc' = IF dateIndex < Len(eventsByDate) THEN "dates"
           ELSE PhaseAfter("dates", 0, Len(holidayDates))
  /\ UNCHANGED <<inputs, dates, holidayDates, eventsByDate, holidayIndex, output, record, hook, ui, older>>

\* line 339-360: the next holiday date
ProcessHolidayStep ==
  /\ pc = "holidays"
  /\ SetEngineState(ProcessHoliday(EngineState, holidayDates[holidayIndex],
                                   eventsByDate, creationDate, exclude))
  /\ holidayIndex' = holidayIndex + 1
  /\ pc' = IF holidayIndex < Len(holidayDates) THEN "holidays" ELSE "finish"
  /\ UNCHANGED <<inputs, dates, holidayDates, eventsByDate, dateIndex, output, record, hook, ui, older>>

\* line 362-449: the unaccounted dates, the validation, the returned record
Validate ==
  /\ pc = "finish"
  /\ LET fin == Finish(EngineState, dates, creationDate)
     IN  /\ SetEngineState(fin.state)
         /\ output' = [returned |-> TRUE] @@ fin.output
  /\ pc' = "done"
  /\ UNCHANGED <<inputs, dates, holidayDates, eventsByDate, dateIndex, holidayIndex, record, hook, ui, older>>

\* line 532-566: the record the hook builds from the returned result
Summarize ==
  /\ pc = "done"
  /\ record' = [derived |-> TRUE]
                 @@ UtilizationRecord([f \in DOMAIN output \ {"returned"} |-> output[f]],
                                      employeeName)
  /\ pc' = "summarized"
  /\ UNCHANGED <<inputs, dates, holidayDates, eventsByDate, dateIndex, holidayIndex,
                 utilization, categoryDates, holidayWarnings, output, hook, ui, older>>

Next == Prepare \/ ProcessDateStep \/ ProcessHolidayStep \/ Validate \/ Summarize

Spec == Init /\ [][Next]_vars

SpecTeam == InitTeam /\ [][Next]_vars

SpecWeek == InitWeek /\ [][Next]_vars

\* ------------------------------------------------------------------ the loop of the hook

\* the renders of the hook the model follows
MaxRenders == 2

\* line 8-13
EXCLUDED_EMPLOYEES == {"Bill Ahern", "Harry Cannon", "Matt Mokracek", "Paul Yetman"}

\* the subcalendars the hook receives: the Holidays calendar and two further
\* ones, the second of which may belong to an excluded employee
HolidaysId == 0

HookSubcalendars ==
  {<<[id |-> HolidaysId, name |-> "Holidays", creation_dt |-> NoDate],
     [id |-> HolidaysId + 1, name |-> n1, creation_dt |-> NoDate],
     [id |-> HolidaysId + 2, name |-> n2, creation_dt |-> c2]>> :
     n1 \in EmployeeNames, n2 \in EmployeeNames \cup {"Paul Yetman"},
     c2 \in {NoDate, LocalMidnight(WindowStartDay + 1)}}

\* event.subcalendar_ids of an event of one or of both employees
EmployeeIdLists == {{HolidaysId + 1}, {HolidaysId + 2}, {HolidaysId + 1, HolidaysId + 2}}

WithIds(event, ids) == event @@ [subcalendar_ids |-> ids]

\* the events the hook receives: one-day events of the employees, and a holiday
\* on the first day of the window
HookEvents ==
  {WithIds(MakeEvent(JobTitle, label, span), ids) :
     label \in {FieldLabel, Vacation}, span \in DaySpans, ids \in EmployeeIdLists}
    \cup {WithIds(MakeEvent(HolidayTitle, <<>>, span), {HolidaysId}) :
            span \in {sp \in DaySpans : sp.start_dt.day = WindowStartDay}}

\* line 503-505: subcalendars.find(sub => sub.name === 'Holidays')
FindHolidays(subcalendars) ==
  LET found == SelectSeq(subcalendars, LAMBDA sub : sub.name = "Holidays")
  IN  IF found = <<>> THEN <<>> ELSE <<found[1]>>

\* line 508-513
HookHolidayEvents(subcalendars, allEvents) ==
  LET holidaysSubcalendar == FindHolidays(subcalendars)
  IN  IF holidaysSubcalendar = <<>> THEN <<>>
      ELSE SelectSeq(allEvents,
                     LAMBDA event :
                       /\ holidaysSubcalendar[1].id \in event.subcalendar_ids
                       /\ ~Includes(ToLowerCase(event.title), HolidayParty))

\* line 516-518
Employees(subcalendars) ==
  SelectSeq(subcalendars,
            LAMBDA sub : /\ sub.name \notin {"Future Work", "Holidays"}
                         /\ sub.name \notin EXCLUDED_EMPLOYEES)

\* every event handed to every employee
EventsOfAnyone(allEvents, employee) == allEvents

\* line 524-526
EmployeeEventsOf(allEvents, employee) ==
  SelectSeq(allEvents, LAMBDA event : employee.id \in event.subcalendar_ids)

\* the date sets of the preceding call kept
DeclarationsKeepingDateSets ==
  /\ pc' = "prepare"
  /\ dates' = getDatesBetween(startDate, endDate)
  /\ holidayDates' = <<>>
  /\ eventsByDate' = <<>>
  /\ dateIndex' = 1
  /\ holidayIndex' = 1
  /\ utilization' = InitialState(dates').utilization
  /\ categoryDates' = categoryDates
  /\ holidayWarnings' = <<>>
  /\ output' = NoOutput
  /\ record' = NoRecord

\* line 100-133, at the entry of a further call: every object is built anew
NewDeclarations ==
  /\ pc' = "prepare"
  /\ dates' = getDatesBetween(startDate, endDate)
  /\ holidayDates' = <<>>
  /\ eventsByDate' = <<>>
  /\ dateIndex' = 1
  /\ holidayIndex' = 1
  /\ utilization' = InitialState(dates').utilization
  /\ categoryDates' = InitialState(dates').categoryDates
  /\ holidayWarnings' = <<>>
  /\ output' = NoOutput
  /\ record' = NoRecord

\* line 523-531: the arguments of the call for one employee
CallFor(employee) ==
  /\ events' = EmployeeEventsOf(hook.allEvents, employee)
  /\ employeeName' = employee.name
  /\ creationDate' = employee.creation_dt
  /\ UNCHANGED <<holidayEvents, startDate, endDate, ui, older>>
  /\ NewDeclarations

\* the hook at its first call of the engine
InitHook ==
  /\ hook \in {[mapping |-> TRUE, subcalendars |-> subs, allEvents |-> evs,
                employees |-> Employees(subs), index |-> 1, data |-> <<>>,
                previousData |-> <<>>, render |-> 1] :
                 subs \in HookSubcalendars, evs \in BoundedSeq(HookEvents, MaxEvents)}
  /\ events = EmployeeEventsOf(hook.allEvents, hook.employees[1])
  /\ holidayEvents = HookHolidayEvents(hook.subcalendars, hook.allEvents)
  /\ startDate = LocalMidnight(WindowStartDay)
  /\ endDate = LocalMidnight(WindowStartDay + WinLen - 1)
  /\ employeeName = hook.employees[1].name
  /\ creationDate = hook.employees[1].creation_dt
  /\ Declarations
  /\ NoComponents
  /\ older = NoOlder

\* line 532-571: the object the callback returns: the employee's subcalendar,
\* the derived totals and percentages, and the parts of the result handed on as
\* they are
EmployeeRecord ==
  [employee |-> hook.employees[hook.index], derived |-> record,
   result |-> [f \in DOMAIN output \ {"returned"} |-> output[f]]]

\* line 523-571: the callback of employees.map returns the record of one employee
\* and is called for the next
NextEmployee ==
  /\ hook.mapping
  /\ pc = "summarized"
  /\ hook.index < Len(hook.employees)
  /\ hook' = [hook EXCEPT !.index = @ + 1, !.data = Append(@, EmployeeRecord)]
  /\ CallFor(hook.employees[hook.index + 1])

\* line 571-577: the callback returns the record of the last employee and the
\* hook returns the array
ReturnData ==
  /\ hook.mapping
  /\ pc = "summarized"
  /\ hook.index = Len(hook.employees)
  /\ hook' = [hook EXCEPT !.data = Append(@, EmployeeRecord)]
  /\ pc' = "returned"
  /\ UNCHANGED <<inputs, dates, holidayDates, eventsByDate, dateIndex, holidayIndex,
                 utilization, categoryDates, holidayWarnings, output, record, ui, older>>

\* line 495-531: the component renders again and the hook runs again on the same
\* subcalendars, events and window
Rerender ==
  /\ hook.mapping
  /\ pc = "returned"
  /\ hook.render < MaxRenders
  /\ hook' = [hook EXCEPT !.index = 1, !.data = <<>>, !.previousData = hook.data,
                          !.render = @ + 1]
  /\ CallFor(hook.employees[1])

NextHook == Next \/ NextEmployee \/ ReturnData \/ Rerender

SpecHook == InitHook /\ [][NextHook]_vars

\* ------------------------------------------------------------------ the enumeration of days

\* the instants getDatesBetween is called on: any time of the days from the day
\* before the window to the day after it
Instants ==
  {[day |-> d, tod |-> t] :
     d \in (WindowStartDay - 1)..(WindowStartDay + WinLen), t \in 0..EndOfDay}

\* a call of getDatesBetween on two instants
InitDates ==
  /\ startDate \in Instants
  /\ endDate \in Instants
  /\ events = <<>>
  /\ holidayEvents = <<>>
  /\ employeeName = NoName
  /\ creationDate = NoDate
  /\ pc = "enumerate"
  /\ dates = <<>>
  /\ holidayDates = <<>>
  /\ eventsByDate = <<>>
  /\ dateIndex = 1
  /\ holidayIndex = 1
  /\ utilization = InitialState(<<>>).utilization
  /\ categoryDates = InitialState(<<>>).categoryDates
  /\ holidayWarnings = <<>>
  /\ output = NoOutput
  /\ record = NoRecord
  /\ hook = NoHook
  /\ NoComponents
  /\ older = NoOlder

\* line 54-71
Enumerate ==
  /\ pc = "enumerate"
  /\ dates' = getDatesBetween(startDate, endDate)
  /\ pc' = "enumerated"
  /\ UNCHANGED <<inputs, holidayDates, eventsByDate, dateIndex, holidayIndex,
                 utilization, categoryDates, holidayWarnings, output, record, hook, ui, older>>

NextDates == Enumerate

SpecDates == InitDates /\ [][NextDates]_vars

\* ------------------------------------------------------------------ the labels of the events

\* the longest status label of the calls on free labels
MaxLabelLen == 3

\* the characters of these labels: letters of both cases, the space, the
\* underscore and the hyphen
LabelChars == {"W", "f", "h", " ", "_", "-"}

Labels == UNION {[1..n -> LabelChars] : n \in 0..MaxLabelLen}

\* a call of the engine on one event of the first day of the window with any
\* of these labels (the empty one is an event without status), with or without a
\* holiday on the second day
InitLabels ==
  /\ events \in {<<MakeEvent(JobTitle, label, span)>> :
                   label \in Labels,
                   span \in {sp \in DaySpans : sp.start_dt.day = WindowStartDay}}
  /\ holidayEvents \in {<<>>} \cup
                       {<<MakeEvent(HolidayTitle, <<>>, span)>> :
                          span \in {sp \in DaySpans : sp.start_dt.day = WindowStartDay + 1}}
  /\ startDate = LocalMidnight(WindowStartDay)
  /\ endDate = LocalMidnight(WindowStartDay + WinLen - 1)
  /\ employeeName = "Alex Reed"
  /\ creationDate = NoDate
  /\ Declarations
  /\ hook = NoHook
  /\ NoComponents
  /\ older = NoOlder

SpecLabels == InitLabels /\ [][Next]_vars

\* ------------------------------------------------------------------ the protected routes

\* the variables of a call of the engine
call ==
  <<inputs, pc, dates, holidayDates, eventsByDate, dateIndex, holidayIndex,
    utilization, categoryDates, holidayWarnings, output, record>>

\* no call of the engine is in progress
NoCall ==
  /\ events = <<>>
  /\ holidayEvents = <<>>
  /\ startDate = LocalMidnight(WindowStartDay)
  /\ endDate = LocalMidnight(WindowStartDay + WinLen - 1)
  /\ employeeName = NoName
  /\ creationDate = NoDate
  /\ pc = "idle"
  /\ dates = <<>>
  /\ holidayDates = <<>>
  /\ eventsByDate = <<>>
  /\ dateIndex = 1
  /\ holidayIndex = 1
  /\ utilization = InitialState(<<>>).utilization
  /\ categoryDates = InitialState(<<>>).categoryDates
  /\ holidayWarnings = <<>>
  /\ output = NoOutput
  /\ record = NoRecord

\* inProgress of useMsal: 'none' when no interaction is in progress
InteractionStatuses == {"none", "startup", "login", "logout"}

LoginPath == "/login"

\* the paths of the pages wrapped in ProtectedRoute
ProtectedPaths == {"/", "/utilization", "/profile"}

\* location.search
Searches == {"", "?range=7"}

\* location.state of a location that carries none
NoFrom == [pathname |-> "", search |-> ""]

\* the location objects of the router: pathname, search, and state.from
Location(pathname, search, from) == [pathname |-> pathname, search |-> search, from |-> from]

NoLocation == Location("", "", NoFrom)

\* what a component returns: an element, or a Navigate to a location
Element(kind) == [kind |-> kind, to |-> NoLocation]

NavigateTo(location) == [kind |-> "navigate", to |-> location]

\* ProtectedRoute.jsx line 6-26
ProtectedRoute(isAuthenticated, inProgress, location) ==
  IF inProgress # "none" THEN Element("spinner")
  ELSE IF ~isAuthenticated
    THEN NavigateTo(Location(LoginPath, "",
                             [pathname |-> location.pathname, search |-> location.search]))
  ELSE Element("children")

\* useAuth.jsx line 58-75 (and the form of line 81-107): the Login page;
\* from = location.state?.from?.pathname || '/'
Login(isAuthenticated, inProgress, location) ==
  LET from == IF location.from.pathname = "" THEN "/" ELSE location.from.pathname
  IN  IF inProgress # "none" THEN Element("loading")
      ELSE IF isAuthenticated THEN NavigateTo(Location(from, "", NoFrom))
      ELSE Element("form")

\* the element of the route that matches the location
Render(isAuthenticated, inProgress, location) ==
  IF location.pathname = LoginPath
    THEN Login(isAuthenticated, inProgress, location)
    ELSE ProtectedRoute(isAuthenticated, inProgress, location)

\* the application after a render
Mounted(isAuthenticated, inProgress, location) ==
  [mounted |-> TRUE, isAuthenticated |-> isAuthenticated, inProgress |-> inProgress,
   location |-> location, view |-> Render(isAuthenticated, inProgress, location)]

\* the application opened on any page, signed in or not (an account may be
\* cached), MSAL starting up or idle
InitAuth ==
  /\ route \in {Mounted(a, p, Location(path, search, NoFrom)) :
                  a \in BOOLEAN, p \in {"startup", "none"},
                  path \in ProtectedPaths \cup {LoginPath}, search \in Searches}
  /\ chart = NoChart
  /\ hook = NoHook
  /\ older = NoOlder
  /\ NoCall

\* MSAL reports another interaction status, or the accounts change (sign in,
\* sign out), and the components render again
AuthChange ==
  /\ route.mounted
  /\ \E a \in BOOLEAN, p \in InteractionStatuses :
       /\ <<a, p>> # <<route.isAuthenticated, route.inProgress>>
       /\ (a # route.isAuthenticated /\ p # route.inProgress) => p = "none"
       /\ route' = Mounted(a, p, route.location)
  /\ UNCHANGED <<call, hook, chart, older>>

\* useAuth.jsx line 77-79 and 17-26: the button of the Login page opens the
\* login popup
handleLogin ==
  /\ route.mounted
  /\ route.view.kind = "form"
  /\ route' = Mounted(route.isAuthenticated, "login", route.location)
  /\ UNCHANGED <<call, hook, chart, older>>

\* the effect of a rendered Navigate: the router replaces the location
FollowNavigate ==
  /\ route.mounted
  /\ route.view.kind = "navigate"
  /\ route' = Mounted(route.isAuthenticated, route.inProgress, route.view.to)
  /\ UNCHANGED <<call, hook, chart, older>>

\* the user opens another page
Visit ==
  /\ route.mounted
  /\ \E path \in ProtectedPaths \cup {LoginPath}, search \in Searches :
       /\ <<path, search>> # <<route.location.pathname, route.location.search>>
       /\ route' = Mounted(route.isAuthenticated, route.inProgress,
                           Location(path, search, NoFrom))
  /\ UNCHANGED <<call, hook, chart, older>>

NextAuth == AuthChange \/ handleLogin \/ FollowNavigate \/ Visit

SpecAuth == InitAuth /\ [][NextAuth]_vars

\* ------------------------------------------------------------------ the warnings filter of the chart

\* the subcalendars of the chart: the Holidays calendar, a regular and an
\* exempt employee
ChartSubcalendars ==
  <<[id |-> HolidaysId, name |-> "Holidays", creation_dt |-> NoDate],
    [id |-> HolidaysId + 1, name |-> "Alex Reed", creation_dt |-> NoDate],
    [id |-> HolidaysId + 2, name |-> "Liz Quinn", creation_dt |-> NoDate]>>

\* the events of the chart, all on the first day of the window: of one or both
\* employees an event without status, one in the field, one with a social
\* label; and a holiday
ChartEvents ==
  {WithIds(MakeEvent(JobTitle, label, span), ids) :
     label \in {<<>>, FieldLabel, SocialLabel},
     span \in {sp \in DaySpans : sp.start_dt.day = WindowStartDay},
     ids \in EmployeeIdLists}
    \cup {WithIds(MakeEvent(HolidayTitle, <<>>, span), {HolidaysId}) :
            span \in {sp \in DaySpans : sp.start_dt.day = WindowStartDay}}

\* the hook called by the chart, at its first call of the engine
InitChart ==
  /\ hook \in {[mapping |-> TRUE, subcalendars |-> ChartSubcalendars, allEvents |-> evs,
                employees |-> Employees(ChartSubcalendars), index |-> 1, data |-> <<>>,
                previousData |-> <<>>, render |-> 1] :
                 evs \in BoundedSeq(ChartEvents, MaxEvents)}
  /\ events = EmployeeEventsOf(hook.allEvents, hook.employees[1])
  /\ holidayEvents = HookHolidayEvents(hook.subcalendars, hook.allEvents)
  /\ startDate = LocalMidnight(WindowStartDay)
  /\ endDate = LocalMidnight(WindowStartDay + WinLen - 1)
  /\ employeeName = hook.employees[1].name
  /\ creationDate = hook.employees[1].creation_dt
  /\ Declarations
  /\ NoComponents
  /\ older = NoOlder

\* UtilizationChart.jsx line 96: the data of the hook
utilizationData == hook.data

\* UtilizationChart.jsx line 101-105
ChartEmployees == Employees(hook.subcalendars)

\* UtilizationChart.jsx line 126-134
employeesWithWarnings(data) ==
  LET withWarnings ==
        SelectSeq(data,
                  LAMBDA item :
                    LET hasValidationWarning == ~item.result.validationInfo.isValid
                        hasHolidayWarning == Len(item.result.holidayWarnings) > 0
                    IN  hasValidationWarning \/ hasHolidayWarning)
  IN  [i \in 1..Len(withWarnings) |-> withWarnings[i].employee.id]

\* UtilizationChart.jsx line 115-151: the effect that runs when showWarningsOnly
\* or utilizationData changes, on the state c of the chart
WarningsEffect(c, data) ==
  IF Len(data) = 0 THEN c
  ELSE IF c.showWarningsOnly /\ ~c.prevShowWarningsOnly
    THEN LET current == c.selectedEmployees
             warned == employeesWithWarnings(data)
         IN  [c EXCEPT !.previousSelection =
                         IF Len(@) = 0 /\ Len(current) > 0 THEN current ELSE @,
                       !.selectedEmployees = IF Len(warned) > 0 THEN warned ELSE current,
                       !.prevShowWarningsOnly = TRUE]
  ELSE IF ~c.showWarningsOnly /\ c.prevShowWarningsOnly
    THEN IF Len(c.previousSelection) > 0
           THEN [c EXCEPT !.selectedEmployees = c.previousSelection,
                          !.previousSelection = <<>>,
                          !.prevShowWarningsOnly = FALSE]
           ELSE [c EXCEPT !.prevShowWarningsOnly = FALSE]
  ELSE [c EXCEPT !.prevShowWarningsOnly = c.showWarningsOnly]

\* what an observer of the chart remembers: the selection when the filter was
\* last switched on, whether a selection handler ran since, and whether the
\* filter has been switched off again
Observation(before, touched, switchedOff) ==
  [before |-> before, touched |-> touched, switchedOff |-> switchedOff]

DataLoaded == hook.mapping /\ pc = "returned"

\* UtilizationChart.jsx line 34-50 and 107-113: the chart renders with the data
\* loaded and selects every employee
Mount ==
  /\ DataLoaded
  /\ ~chart.mounted
  /\ chart' = WarningsEffect(
                [mounted |-> TRUE,
                 selectedEmployees |->
                   [i \in 1..Len(ChartEmployees) |-> ChartEmployees[i].id],
                 hasInitialized |-> TRUE,
                 previousSelection |-> <<>>,
                 prevShowWarningsOnly |-> FALSE,
                 showWarningsOnly |-> FALSE,
                 observed |-> Observation(<<>>, TRUE, FALSE)],
                utilizationData)
  /\ UNCHANGED <<call, hook, route, older>>

\* UtilizationChart.jsx line 579 and 115-151: the checkbox sets showWarningsOnly
\* and the effect runs
ToggleWarningsOnly ==
  /\ DataLoaded
  /\ chart.mounted
  /\ LET checked == ~chart.showWarningsOnly
     IN  chart' = WarningsEffect(
                    [chart EXCEPT !.showWarningsOnly = checked,
                                  !.observed =
                                     IF checked
                                       THEN Observation(chart.selectedEmployees, FALSE, FALSE)
                                       ELSE [@ EXCEPT !.switchedOff = TRUE]],
                    utilizationData)
  /\ UNCHANGED <<call, hook, route, older>>

\* UtilizationChart.jsx line 385-391
handleEmployeeChange ==
  /\ DataLoaded
  /\ chart.mounted
  /\ \E i \in 1..Len(ChartEmployees) :
       LET employeeId == ChartEmployees[i].id
           prev == chart.selectedEmployees
       IN  chart' = [chart EXCEPT !.selectedEmployees =
                                     IF employeeId \in Range(prev)
                                       THEN SelectSeq(prev, LAMBDA id : id # employeeId)
                                       ELSE Append(prev, employeeId),
                                   !.observed.touched = TRUE]
  /\ UNCHANGED <<call, hook, route, older>>

\* UtilizationChart.jsx line 393-397
handleSelectAll ==
  /\ DataLoaded
  /\ chart.mounted
  /\ Len(ChartEmployees) > 0
  /\ chart' = [chart EXCEPT !.selectedEmployees =
                               [i \in 1..Len(ChartEmployees) |-> ChartEmployees[i].id],
                            !.observed.touched = TRUE]
  /\ UNCHANGED <<call, hook, route, older>>

\* UtilizationChart.jsx line 399-401
handleClearAll ==
  /\ DataLoaded
  /\ chart.mounted
  /\ chart' = [chart EXCEPT !.selectedEmployees = <<>>, !.observed.touched = TRUE]
  /\ UNCHANGED <<call, hook, route, older>>

NextChart ==
  \/ Next
  \/ NextEmployee
  \/ ReturnData
  \/ Mount
  \/ ToggleWarningsOnly
  \/ handleEmployeeChange
  \/ handleSelectAll
  \/ handleClearAll

SpecChart == InitChart /\ [][NextChart]_vars

\* ------------------------------------------------------------------ the two engines

\* the statuses of the events both engines are called on: none, and the
\* normalized ones
NormalizedLabels == {<<>>, Field, Office, Vacation, WorkFromHome, Sick}

\* events that begin and end at midnight
MidnightSpans ==
  {[start_dt |-> LocalMidnight(d), end_dt |-> LocalMidnight(d + n - 1)] :
     d \in WindowDays, n \in 1..MaxSpan}

\* no 'vacation' on a weekend day
OnWeekend(span) == \E d \in span.start_dt.day..span.end_dt.day : isWeekend(LocalMidnight(d))

CommonEvents ==
  {MakeEvent(JobTitle, label, span) :
     label \in NormalizedLabels, span \in MidnightSpans} \
  {MakeEvent(JobTitle, Vacation, span) : span \in {sp \in MidnightSpans : OnWeekend(sp)}}

\* both engines are called on the same events, window and employee, without
\* enrollment date and without holidays
InitEngines ==
  /\ events \in BoundedSeq(CommonEvents, MaxEvents)
  /\ holidayEvents = <<>>
  /\ startDate = LocalMidnight(WindowStartDay)
  /\ endDate = LocalMidnight(WindowStartDay + WinLen - 1)
  /\ employeeName \in EmployeeNames
  /\ creationDate = NoDate
  /\ Declarations
  /\ hook = NoHook
  /\ NoComponents
  /\ older = NoOlder

\* teamupService.js line 64-207: the call of the older engine
CallOlder ==
  /\ ~older.returned
  /\ pc \in {"prepare", "done"}
  /\ older' = [returned |-> TRUE]
                @@ calculateEmployeeUtilizationOlder(events, startDate, endDate,
                                                     employeeName, creationDate)
  /\ UNCHANGED <<call, hook, ui>>

NextEngines == Prepare \/ ProcessDateStep \/ Validate \/ CallOlder

SpecEngines == InitEngines /\ [][NextEngines]_vars

\* ------------------------------------------------------------------ vocabulary of the claims

Done == pc = "done"

IsWeekendDay(d) == d % 7 \in {0, 6}

\* the day is not before the enrollment instant
PostEnrollment(d) ==
  \/ creationDate = NoDate
  \/ d > creationDate.day
  \/ (d = creationDate.day /\ creationDate.tod = 0)

Covers(event, d) == event.start_dt.day <= d /\ d <= event.end_dt.day

IsTechOnCall(event) == Includes(ToLowerCase(event.title), TechOnCall)

StatusOf(event) == normalizeStatus(IF event.status = <<>> THEN Unknown ELSE event.status)

\* the unique normalized statuses active on day d
ActiveStatuses(d) ==
  {StatusOf(events[i]) :
     i \in {j \in 1..Len(events) : ~IsTechOnCall(events[j]) /\ Covers(events[j], d)}}

IsHolidayDay(d) ==
  \E i \in 1..Len(holidayEvents) :
    /\ ~Includes(ToLowerCase(holidayEvents[i].title), HolidayParty)
    /\ Covers(holidayEvents[i], d)

ExpectedWeekdays == {d \in WindowDays : PostEnrollment(d) /\ ~IsWeekendDay(d)}

ExpectedWeekends == {d \in WindowDays : PostEnrollment(d) /\ IsWeekendDay(d)}

RECURSIVE SumWeekdays(_, _)
SumWeekdays(categories, keys) ==
  IF keys = {} THEN 0
  ELSE LET k == CHOOSE x \in keys : TRUE
       IN  categories[k].weekdays + SumWeekdays(categories, keys \ {k})

\* the sum of the weekday totals of all the categories of the result
SumOfAllWeekdayTotals ==
  SumWeekdays(output.utilization.categories, DOMAIN output.utilization.categories)

InSomeCategory(d) ==
  \E c \in DOMAIN output.categoryDates : d \in Range(output.categoryDates[c])

\* ------------------------------------------------------------------ C1

\* C1 (completeness): in the result, every expected weekday of the window is in
\* the date list of at least one category (unknown included) or in
\* unaccountedDates, and the day fractions add up to one per day, so that the
\* weekday totals of all categories add up to the number of expected weekdays.
C1_Completeness ==
  Done =>
    /\ \A d \in ExpectedWeekdays :
         InSomeCategory(d) \/ d \in Range(output.validationInfo.unaccountedDates)
    /\ SumOfAllWeekdayTotals = Scale * Cardinality(ExpectedWeekdays)

\* ------------------------------------------------------------------ C2

\* C2 (reconciliation): for an employee without enrollment date, the weekday
\* totals of all the categories of the result, the ad-hoc ones included, add up
\* to utilization.weekdays within 0.01.
C2_Reconciliation ==
  (Done /\ creationDate = NoDate) =>
    WithinTolerance(Abs(SumOfAllWeekdayTotals - Scale * output.utilization.weekdays))

\* ------------------------------------------------------------------ C3

\* C3: validationInfo.isValid is true exactly when the weekday totals of all the
\* categories of the result add up to the number of expected weekdays within
\* 0.01, and validationInfo.totalWeekdayCategories is that sum.
C3_IsValidOverAllCategories ==
  Done =>
    /\ output.validationInfo.isValid
         <=> WithinTolerance(
               Abs(SumOfAllWeekdayTotals - Scale * Cardinality(ExpectedWeekdays)))
    /\ output.validationInfo.totalWeekdayCategories = SumOfAllWeekdayTotals

\* ------------------------------------------------------------------ C4

\* C4: a utilization-exempt employee has an unknown weekday total of 0 and empty
\* unknown date lists, while utilization.weekdays counts every expected weekday.
C4_ExemptNeverUnknown ==
  (Done /\ employeeName \in EXCLUDED_FROM_UTILIZATION) =>
    /\ output.utilization.categories[Unknown].weekdays = 0
    /\ output.categoryDates[Unknown] = <<>>
    /\ output.unknownDates = <<>>
    /\ output.utilization.weekdays = Cardinality(ExpectedWeekdays)

\* ------------------------------------------------------------------ C5

IsAscending(seq) == \A i, j \in 1..Len(seq) : i < j => seq[i] < seq[j]

\* the dates that are in a category's date set or in a holiday warning
DatesAssignedByClassification ==
  UNION {categoryDates[c] : c \in DOMAIN categoryDates}
    \cup {holidayWarnings[i].date : i \in 1..Len(holidayWarnings)}

\* C5 (validator pass): the step that ends the function reports in
\* validationInfo.unaccountedDates exactly the expected weekdays that the
\* classification left in no category's date set and in no holiday warning, in
\* ascending order without duplicates; each of them is in the unknown date list
\* of the result, and the unknown weekday total counts every date of that list.
C5_UnaccountedDates ==
  [][pc = "finish" =>
       LET expected == {d \in ExpectedWeekdays : d \notin DatesAssignedByClassification}
           listed == output'.validationInfo.unaccountedDates
       IN  /\ Range(listed) = expected
           /\ IsAscending(listed)
           /\ expected \subseteq Range(output'.categoryDates[Unknown])
           /\ IsAscending(output'.categoryDates[Unknown])
           /\ output'.utilization.categories[Unknown].weekdays =
                Scale * Len(output'.categoryDates[Unknown])]_vars

\* an exempt employee: a weekday is unaccounted while another one, a holiday with
\* a status that raises a warning, is not
C5_Witness ==
  /\ Done
  /\ Len(output.validationInfo.unaccountedDates) >= 1
  /\ Len(output.holidayWarnings) >= 1
  /\ output.holidayWarnings[1].date \notin Range(output.validationInfo.unaccountedDates)
  /\ output.holidayWarnings[1].date \notin Range(output.categoryDates[Unknown])

\* ------------------------------------------------------------------ C6

\* the weekdays that are classified by the split of the day among the statuses
RegularDays ==
  {d \in ExpectedWeekdays : ~IsHolidayDay(d) /\ ActiveStatuses(d) # {}}

RECURSIVE SumOfShares(_)
SumOfShares(days) ==
  IF days = {} THEN 0
  ELSE LET d == CHOOSE x \in days : TRUE
       IN  DayFraction(Cardinality(ActiveStatuses(d))) + SumOfShares(days \ {d})

\* what the regular weekdays give to the category of status s: 1/N per day
RegularShare(s) == SumOfShares({d \in RegularDays : s \in ActiveStatuses(d)})

\* C6 (weekday split): in the result, every status active on a regular weekday
\* has the date in its date list, a status that is no canonical key included,
\* and the weekday total of a category that only such days feed is the sum of
\* the 1/N of these days.
C6_WeekdaySplit ==
  Done =>
    /\ \A d \in RegularDays : \A s \in ActiveStatuses(d) :
         /\ s \in DOMAIN output.categoryDates
         /\ d \in Range(output.categoryDates[s])
    /\ \A s \in DOMAIN output.utilization.categories \ {Holiday, Overtime, Unknown} :
         output.utilization.categories[s].weekdays = RegularShare(s)

\* ------------------------------------------------------------------ C7

CurrentDate == eventsByDate[dateIndex].date

CurrentStatuses == Range(eventsByDate[dateIndex].statuses)

OvertimeWeekendDays ==
  {d \in ExpectedWeekends : ActiveStatuses(d) # {} /\ Vacation \notin ActiveStatuses(d)}

\* C7 (weekend exclusivity): the result's overtime.weekends is the number of
\* expected weekend days that have a status and no 'vacation', one whole day each
\* whatever the number of statuses; and the step that classifies such a day
\* changes nothing of the utilization but overtime.weekends, by one.
C7_WeekendOvertime ==
  /\ [](Done => output.utilization.categories[Overtime].weekends
                  = Scale * Cardinality(OvertimeWeekendDays))
  /\ [][(/\ pc = "dates"
         /\ IsWeekendDay(CurrentDate)
         /\ PostEnrollment(CurrentDate)
         /\ Vacation \notin CurrentStatuses)
        => utilization' =
             [utilization EXCEPT !.categories[Overtime].weekends = @ + Scale]]_vars

C7_Witness ==
  /\ Done
  /\ \E d \in OvertimeWeekendDays :
       /\ Cardinality(ActiveStatuses(d)) >= 2
       /\ d \in Range(output.categoryDates[Overtime])
  /\ output.utilization.categories[Overtime].weekends = Scale

\* ------------------------------------------------------------------ C8

VacationWeekendDays == {d \in ExpectedWeekends : Vacation \in ActiveStatuses(d)}

\* C8 (weekend vacation): the result's vacation.weekends is the sum of 1/N over
\* the expected weekend days whose N statuses include 'vacation', and these
\* dates are in the vacation date list; the step that classifies such a day
\* leaves every category but vacation as it was: totals and date sets, the date
\* set of unknown included, from which alone the returned unknown total is
\* counted (the step may lower the provisional unknown counter, which the
\* result never shows).
C8_WeekendVacation ==
  /\ [](Done =>
          /\ output.utilization.categories[Vacation].weekends
               = SumOfShares(VacationWeekendDays)
          /\ VacationWeekendDays \subseteq Range(output.categoryDates[Vacation])
          /\ output.utilization.categories[Unknown].weekdays
               = Scale * Len(output.categoryDates[Unknown]))
  /\ [][(/\ pc = "dates"
         /\ IsWeekendDay(CurrentDate)
         /\ PostEnrollment(CurrentDate)
         /\ Vacation \in CurrentStatuses)
        => /\ DOMAIN utilization'.categories = DOMAIN utilization.categories
           /\ \A c \in DOMAIN utilization.categories \ {Vacation, Unknown} :
                utilization'.categories[c] = utilization.categories[c]
           /\ utilization'.categories[Vacation] =
                [utilization.categories[Vacation] EXCEPT
                   !.weekends = @ + DayFraction(Cardinality(CurrentStatuses))]
           /\ utilization'.categories[Unknown].weekends =
                utilization.categories[Unknown].weekends
           /\ utilization'.weekdays = utilization.weekdays
           /\ utilization'.weekends = utilization.weekends
           /\ categoryDates' =
                [categoryDates EXCEPT ![Vacation] = @ \cup {CurrentDate}]]_vars

C8_Witness ==
  /\ Done
  /\ \E d \in VacationWeekendDays : Cardinality(ActiveStatuses(d)) = 2
  /\ output.utilization.categories[Vacation].weekends = DayFraction(2)
  /\ output.utilization.categories[Overtime].weekends = 0

\* ------------------------------------------------------------------ C9

WeekendOnly(event) ==
  \A d \in event.start_dt.day..event.end_dt.day : IsWeekendDay(d)

\* holiday events, of one day or more, that cover weekend days only
WeekendHolidayEvents ==
  {h \in {MakeEvent(HolidayTitle, <<>>, span) : span \in Spans} : WeekendOnly(h)}

RemoveAt(seq, i) == SubSeq(seq, 1, i - 1) \o SubSeq(seq, i + 1, Len(seq))

\* the returned record of the state
Returned == [f \in DOMAIN output \ {"returned"} |-> output[f]]

ResultWithHolidays(otherHolidayEvents) ==
  calculateEmployeeUtilization(events, startDate, endDate, employeeName, creationDate,
                               otherHolidayEvents)

\* C9 (holidays only matter on weekdays): the result is the one the engine
\* returns for the same call with a weekend-only holiday event added, first or
\* last, or with one of its weekend-only holiday events removed; a weekend day
\* that is a holiday and has the single status 'vacation' is in the vacation date
\* list, and no weekend day is in the holiday date list or in a holiday total.
C9_WeekendHolidays ==
  Done =>
    /\ \A h \in WeekendHolidayEvents :
         /\ ResultWithHolidays(Append(holidayEvents, h)) = Returned
         /\ ResultWithHolidays(<<h>> \o holidayEvents) = Returned
    /\ \A i \in 1..Len(holidayEvents) :
         WeekendOnly(holidayEvents[i]) =>
           ResultWithHolidays(RemoveAt(holidayEvents, i)) = Returned
    /\ \A d \in ExpectedWeekends :
         (IsHolidayDay(d) /\ ActiveStatuses(d) = {Vacation}) =>
           d \in Range(output.categoryDates[Vacation])
    /\ \A d \in WindowDays :
         IsWeekendDay(d) => d \notin Range(output.categoryDates[Holiday])
    /\ output.utilization.categories[Holiday].weekends = 0

C9_Witness ==
  /\ Done
  /\ \E d \in ExpectedWeekends :
       /\ IsHolidayDay(d)
       /\ ActiveStatuses(d) = {Vacation}
       /\ output.utilization.categories[Vacation].weekends = Scale
       /\ output.utilization.categories[Holiday].weekdays = 0

\* ------------------------------------------------------------------ C10

HolidayVacationDays ==
  {d \in ExpectedWeekdays : IsHolidayDay(d) /\ Vacation \in ActiveStatuses(d)}

\* the weekdays that count as one whole holiday
WholeHolidayDays ==
  {d \in ExpectedWeekdays :
     IsHolidayDay(d) /\ (ActiveStatuses(d) = {} \/ Vacation \in ActiveStatuses(d))}

\* C10 (holiday plus vacation): an expected weekday that is a holiday and has
\* 'vacation' among its statuses is in the holiday date list of the result and in
\* no other date list, unknown included; the holiday weekday total is one per
\* whole holiday (and 1/N per regular day with the status 'holiday'); the step
\* that classifies the day adds one to holiday.weekdays and changes no other
\* total and no date set but those of holiday and unknown, and the holiday pass
\* does not count a date with statuses again.
C10_HolidayVacation ==
  /\ [](Done =>
          /\ \A d \in HolidayVacationDays :
               /\ d \in Range(output.categoryDates[Holiday])
               /\ d \notin Range(output.unknownDates)
               /\ \A c \in DOMAIN output.categoryDates \ {Holiday} :
                    d \notin Range(output.categoryDates[c])
          /\ output.utilization.categories[Holiday].weekdays
               = Scale * Cardinality(WholeHolidayDays) + RegularShare(Holiday))
  /\ [][(/\ pc = "dates"
         /\ ~IsWeekendDay(CurrentDate)
         /\ PostEnrollment(CurrentDate)
         /\ IsHolidayDay(CurrentDate)
         /\ Vacation \in CurrentStatuses)
        => /\ utilization' =
                [utilization EXCEPT !.categories[Holiday].weekdays = @ + Scale]
           /\ DOMAIN categoryDates' = DOMAIN categoryDates
           /\ \A c \in DOMAIN categoryDates \ {Holiday, Unknown} :
                categoryDates'[c] = categoryDates[c]
           /\ CurrentDate \in categoryDates'[Holiday]
           /\ CurrentDate \notin categoryDates'[Unknown]
           /\ holidayWarnings' = holidayWarnings]_vars
  /\ [][(pc = "holidays" /\ ActiveStatuses(holidayDates[holidayIndex]) # {})
        => UNCHANGED <<utilization, categoryDates, holidayWarnings>>]_vars

C10_Witness ==
  /\ Done
  /\ \E d \in HolidayVacationDays : Field \in ActiveStatuses(d)
  /\ output.utilization.categories[Holiday].weekdays = Scale
  /\ output.utilization.categories[Vacation].weekdays = 0

\* ------------------------------------------------------------------ C11

\* the holiday weekdays worked in the field or the office
HolidayWorkedDays ==
  {d \in ExpectedWeekdays :
     /\ IsHolidayDay(d)
     /\ Vacation \notin ActiveStatuses(d)
     /\ (Field \in ActiveStatuses(d) \/ Office \in ActiveStatuses(d))}

\* C11 (working through a holiday): an expected weekday that is a holiday, has
\* no 'vacation' and has 'field' or 'office' among its statuses is in the
\* overtime date list of the result and in no other list, unknown included; the
\* overtime weekday total is one whole day per such day whatever the number of
\* its statuses (and 1/N per regular day with the status 'overtime'), field and
\* office get nothing from it; the step that classifies the day adds one to
\* overtime.weekdays and changes no other total, no date set but those of
\* overtime and unknown, and no warning.
C11_HolidayWorked ==
  /\ [](Done =>
          /\ \A d \in HolidayWorkedDays :
               /\ d \in Range(output.categoryDates[Overtime])
               /\ d \notin Range(output.unknownDates)
               /\ \A c \in DOMAIN output.categoryDates \ {Overtime} :
                    d \notin Range(output.categoryDates[c])
          /\ output.utilization.categories[Overtime].weekdays
               = Scale * Cardinality(HolidayWorkedDays) + RegularShare(Overtime)
          /\ output.utilization.categories[Field].weekdays = RegularShare(Field)
          /\ output.utilization.categories[Office].weekdays = RegularShare(Office))
  /\ [][(/\ pc = "dates"
         /\ ~IsWeekendDay(CurrentDate)
         /\ PostEnrollment(CurrentDate)
         /\ IsHolidayDay(CurrentDate)
         /\ Vacation \notin CurrentStatuses
         /\ (Field \in CurrentStatuses \/ Office \in CurrentStatuses))
        => /\ utilization' =
                [utilization EXCEPT !.categories[Overtime].weekdays = @ + Scale]
           /\ DOMAIN categoryDates' = DOMAIN categoryDates
           /\ \A c \in DOMAIN categoryDates \ {Overtime, Unknown} :
                categoryDates'[c] = categoryDates[c]
           /\ categoryDates'[Overtime] = categoryDates[Overtime] \cup {CurrentDate}
           /\ categoryDates'[Unknown] = categoryDates[Unknown] \ {CurrentDate}
           /\ holidayWarnings' = holidayWarnings]_vars

\* a holiday spent in the office and working from home: one day of overtime
C11_Witness ==
  /\ Done
  /\ \E d \in HolidayWorkedDays : ActiveStatuses(d) = {Office, WorkFromHome}
  /\ output.utilization.categories[Overtime].weekdays = Scale
  /\ output.utilization.categories[Office].weekdays = 0
  /\ output.utilization.categories[WorkFromHome].weekdays = 0

\* ------------------------------------------------------------------ C12

\* the holiday weekdays whose statuses are neither vacation nor field nor office
HolidayWarningDays ==
  {d \in ExpectedWeekdays :
     /\ IsHolidayDay(d)
     /\ ActiveStatuses(d) # {}
     /\ ActiveStatuses(d) \cap {Vacation, Field, Office} = {}}

WarningsFor(d) ==
  {i \in 1..Len(output.holidayWarnings) : output.holidayWarnings[i].date = d}

\* C12 (holiday warning): in the result, an expected weekday that is a holiday
\* and whose statuses contain none of vacation, field, office is in the date
\* list of no category other than unknown, has exactly one holiday warning,
\* which lists its unique statuses, and is in the unknown date list, every date
\* of which the unknown weekday total counts.
C12_HolidayWarning ==
  Done =>
    /\ \A d \in HolidayWarningDays :
         /\ \A c \in DOMAIN output.categoryDates \ {Unknown} :
              d \notin Range(output.categoryDates[c])
         /\ Cardinality(WarningsFor(d)) = 1
         /\ \A i \in WarningsFor(d) :
              /\ Range(output.holidayWarnings[i].statuses) = ActiveStatuses(d)
              /\ Len(output.holidayWarnings[i].statuses) = Cardinality(ActiveStatuses(d))
         /\ d \in Range(output.categoryDates[Unknown])
    /\ output.utilization.categories[Unknown].weekdays
         = Scale * Len(output.categoryDates[Unknown])

\* ------------------------------------------------------------------ C13

\* the holiday weekdays without any active status
StatuslessHolidayDays ==
  {d \in ExpectedWeekdays : IsHolidayDay(d) /\ ActiveStatuses(d) = {}}

HolidayEventsCovering(d) ==
  {i \in 1..Len(holidayEvents) :
     /\ ~Includes(ToLowerCase(holidayEvents[i].title), HolidayParty)
     /\ Covers(holidayEvents[i], d)}

\* C13 (holiday without statuses): an expected weekday that is a holiday and
\* has no active status (no events, or 'tech on call' events only) is in the
\* holiday date list of the result and in no unknown list; the holiday weekday
\* total has one whole day for it, however many holiday events cover it: the
\* holiday dates hold each date once, the pass over the events leaves the
\* holiday total alone when such days are the only holidays, and the step of
\* the holiday pass for the date adds exactly one to holiday.weekdays, puts the
\* date in the holiday set, takes it out of the unknown set and changes nothing
\* else.
C13_HolidayWithoutStatuses ==
  /\ [](\A i, j \in 1..Len(holidayDates) :
          holidayDates[i] = holidayDates[j] => i = j)
  /\ [](Done =>
          /\ \A d \in StatuslessHolidayDays :
               /\ d \in Range(output.categoryDates[Holiday])
               /\ d \notin Range(output.categoryDates[Unknown])
               /\ d \notin Range(output.unknownDates)
               /\ d \notin Range(output.validationInfo.unaccountedDates)
          /\ (WholeHolidayDays = StatuslessHolidayDays /\ RegularShare(Holiday) = 0)
               => output.utilization.categories[Holiday].weekdays
                    = Scale * Cardinality(StatuslessHolidayDays))
  /\ [][(/\ pc = "holidays"
         /\ ~IsWeekendDay(holidayDates[holidayIndex])
         /\ PostEnrollment(holidayDates[holidayIndex])
         /\ ActiveStatuses(holidayDates[holidayIndex]) = {})
        => /\ utilization' =
                [utilization EXCEPT !.categories[Holiday].weekdays = @ + Scale]
           /\ categoryDates' =
                [categoryDates EXCEPT
                   ![Holiday] = @ \cup {holidayDates[holidayIndex]},
                   ![Unknown] = @ \ {holidayDates[holidayIndex]}]
           /\ holidayWarnings' = holidayWarnings]_vars

\* a weekday that two holiday events cover and whose only event is a tech on
\* call event: one day of holiday
C13_Witness ==
  /\ Done
  /\ \E d \in StatuslessHolidayDays :
       /\ Cardinality(HolidayEventsCovering(d)) = 2
       /\ \E i \in 1..Len(events) : IsTechOnCall(events[i]) /\ Covers(events[i], d)
       /\ output.categoryDates[Holiday] = <<d>>
  /\ output.utilization.categories[Holiday].weekdays = Scale

\* ------------------------------------------------------------------ C14

ShiftTitle == <<"T","E","C","H"," ","O","N"," ","C","A","L","L"," ","2">>

\* events whose title contains 'tech on call' in some letter case: with a status
\* label and of one day or more, or without status
TechOnCallEvents ==
  {MakeEvent(TechOnCallTitle, FieldLabel, span) : span \in Spans}
    \cup {MakeEvent(ShiftTitle, <<>>, span) : span \in DaySpans}

InsertAt(seq, i, x) == SubSeq(seq, 1, i - 1) \o <<x>> \o SubSeq(seq, i, Len(seq))

ResultWithEvents(otherEvents) ==
  calculateEmployeeUtilization(otherEvents, startDate, endDate, employeeName,
                               creationDate, holidayEvents)

\* C14 (tech on call is ignored): the result is the one the engine returns for
\* the same call with a tech on call event added at any place of the event
\* list, with one of its tech on call events removed, or with all of them
\* removed, so that a day whose only events are tech on call events is
\* classified as a day without events.
C14_TechOnCallIgnored ==
  Done =>
    /\ \A t \in TechOnCallEvents : \A i \in 1..(Len(events) + 1) :
         ResultWithEvents(InsertAt(events, i, t)) = Returned
    /\ \A i \in 1..Len(events) :
         IsTechOnCall(events[i]) => ResultWithEvents(RemoveAt(events, i)) = Returned
    /\ ResultWithEvents(SelectSeq(events, LAMBDA ev : ~IsTechOnCall(ev))) = Returned

\* a regular employee's weekday with a tech on call event and no other event is
\* unknown, and a holiday with a tech on call event only is a holiday
C14_Witness ==
  /\ Done
  /\ employeeName \notin EXCLUDED_FROM_UTILIZATION
  /\ \E i \in 1..Len(events) : \E d \in ExpectedWeekdays :
       /\ IsTechOnCall(events[i])
       /\ Covers(events[i], d)
       /\ ActiveStatuses(d) = {}
       /\ ~IsHolidayDay(d)
       /\ d \in Range(output.categoryDates[Unknown])
  /\ \E i \in 1..Len(events) : ~IsTechOnCall(events[i])

\* ------------------------------------------------------------------ C15

\* the window days whose calendar date is on or after the enrollment calendar date
EnrolledDays == {d \in WindowDays : creationDate = NoDate \/ d >= creationDate.day}

\* the first day of the window that counts
FirstEnrolledDay ==
  IF creationDate = NoDate \/ creationDate.day < WindowStartDay
    THEN WindowStartDay
    ELSE creationDate.day

\* the result of the call without enrollment date on the days that count
ResultOfEnrolledDays ==
  calculateEmployeeUtilization(events, LocalMidnight(FirstEnrolledDay), endDate,
                               employeeName, NoDate, holidayEvents)

WithoutTotalDays(result) ==
  [result EXCEPT !.utilization =
     [f \in DOMAIN result.utilization \ {"totalDays"} |-> result.utilization[f]]]

\* C15 (enrollment filtering): the result counts the window days whose calendar
\* date is on or after the enrollment calendar date, weekdays and weekends, and
\* is, but for totalDays, the result of the call without enrollment date on
\* these days alone: the earlier days contribute nothing, the others are counted
\* as if there were no enrollment date.
C15_EnrollmentFiltering ==
  Done =>
    /\ output.utilization.weekdays
         = Cardinality({d \in EnrolledDays : ~IsWeekendDay(d)})
    /\ output.utilization.weekends
         = Cardinality({d \in EnrolledDays : IsWeekendDay(d)})
    /\ WithoutTotalDays(Returned) = WithoutTotalDays(ResultOfEnrolledDays)

\* ------------------------------------------------------------------ C16

\* C16 (weekends are never unknown): at every point of the computation only
\* overtime and vacation have a weekend total that is not zero and the unknown
\* date set holds no weekend date; in the result no weekend date is in the
\* unknown date list, in unknownDates or in unaccountedDates, the unknown
\* weekday total counts the weekdays of the unknown date list and nothing else,
\* utilization.weekends counts every expected weekend day, and a weekend day
\* without statuses is in no category's date list.
C16_WeekendsNeverUnknown ==
  /\ \A c \in DOMAIN utilization.categories \ {Overtime, Vacation} :
       utilization.categories[c].weekends = 0
  /\ \A d \in categoryDates[Unknown] : ~IsWeekendDay(d)
  /\ Done =>
       /\ \A c \in DOMAIN output.utilization.categories \ {Overtime, Vacation} :
            output.utilization.categories[c].weekends = 0
       /\ \A d \in Range(output.categoryDates[Unknown])
                    \cup Range(output.unknownDates)
                    \cup Range(output.validationInfo.unaccountedDates) :
            ~IsWeekendDay(d)
       /\ output.utilization.categories[Unknown].weekdays
            = Scale * Cardinality({d \in Range(output.categoryDates[Unknown]) :
                                     ~IsWeekendDay(d)})
       /\ output.utilization.weekends = Cardinality(ExpectedWeekends)
       /\ \A d \in ExpectedWeekends : ActiveStatuses(d) = {} => ~InSomeCategory(d)

\* a regular employee with two unknown weekdays and a weekend day of vacation
\* and another status: the unknown total still counts the two weekdays
C16_Witness ==
  /\ Done
  /\ employeeName \notin EXCLUDED_FROM_UTILIZATION
  /\ \E d \in ExpectedWeekends :
       Vacation \in ActiveStatuses(d) /\ Cardinality(ActiveStatuses(d)) = 2
  /\ Cardinality(ExpectedWeekdays) = 2
  /\ output.utilization.categories[Unknown].weekdays = 2 * Scale
  /\ output.utilization.weekends = 1

\* ------------------------------------------------------------------ C17

\* the dates of the result that are in the date list of a category other than
\* unknown
DatesOfRealCategories ==
  UNION {Range(output.categoryDates[c]) : c \in DOMAIN output.categoryDates \ {Unknown}}

\* C17 (unknown is exclusive): in the result, whoever the employee is, no date
\* of the date list of a category other than unknown is in the unknown date
\* list or in unknownDates, and the unknown weekday total counts no such date.
C17_UnknownExclusive ==
  Done =>
    /\ DatesOfRealCategories \cap Range(output.categoryDates[Unknown]) = {}
    /\ DatesOfRealCategories \cap Range(output.unknownDates) = {}
    /\ output.utilization.categories[Unknown].weekdays
         = Scale * Cardinality(Range(output.categoryDates[Unknown])
                                 \ DatesOfRealCategories)

\* ------------------------------------------------------------------ C18

WindowWeekdays == {d \in WindowDays : ~IsWeekendDay(d)}

\* the days of the events of the call
EventDays == {events[i].start_dt.day : i \in 1..Len(events)}

\* a regular employee without enrollment date, no holidays, and nothing but
\* single-day events with the status 'office', one on each of k weekdays
OfficeScenario ==
  /\ employeeName \notin EXCLUDED_FROM_UTILIZATION
  /\ creationDate = NoDate
  /\ holidayEvents = <<>>
  /\ \A i \in 1..Len(events) :
       /\ ~IsTechOnCall(events[i])
       /\ StatusOf(events[i]) = Office
       /\ events[i].start_dt.day = events[i].end_dt.day
       /\ events[i].start_dt.day \in WindowWeekdays
  /\ Cardinality(EventDays) = Len(events)

\* C18 (office/unknown scenario): in the office scenario with k events in a
\* window of n weekdays the result has office.weekdays = k on the days of the
\* events, unknown.weekdays = n - k on the other weekdays, every other total 0,
\* weekday and weekend, and validationInfo.isValid true; without events every
\* weekday is unknown.
C18_OfficeScenario ==
  (Done /\ OfficeScenario) =>
    /\ output.utilization.categories[Office]
         = [weekdays |-> Scale * Len(events), weekends |-> 0]
    /\ Range(output.categoryDates[Office]) = EventDays
    /\ output.utilization.categories[Unknown]
         = [weekdays |-> Scale * (Cardinality(WindowWeekdays) - Len(events)),
            weekends |-> 0]
    /\ Range(output.categoryDates[Unknown]) = WindowWeekdays \ EventDays
    /\ Range(output.unknownDates) = WindowWeekdays \ EventDays
    /\ \A c \in DOMAIN output.utilization.categories \ {Office, Unknown} :
         output.utilization.categories[c] = [weekdays |-> 0, weekends |-> 0]
    /\ output.utilization.weekdays = Cardinality(WindowWeekdays)
    /\ output.validationInfo.isValid

\* one office day and one unknown day
C18_Witness ==
  /\ Done
  /\ OfficeScenario
  /\ Len(events) = 1
  /\ Cardinality(WindowWeekdays) = 2
  /\ output.utilization.categories[Office].weekdays = Scale
  /\ output.utilization.categories[Unknown].weekdays = Scale
  /\ output.validationInfo.isValid

\* ------------------------------------------------------------------ C19

Summarized == pc = "summarized"

\* C19 (utilization summary): the record of a regular employee has
\* weekdayUtilized = field + office + work from home weekday totals of the
\* result, which are the 1/N shares of these statuses on the regular weekdays,
\* and weekendUtilized = overtime.weekends, one per weekend day worked; the
\* record of a utilization-exempt employee has the work from home weekday total
\* alone and weekendUtilized = 0, whatever the other totals are.
C19_UtilizationSummary ==
  Summarized =>
    LET categories == output.utilization.categories
    IN  IF employeeName \in EXCLUDED_FROM_UTILIZATION
          THEN /\ record.isExcludedFromUtilization
               /\ record.weekdayUtilized = categories[WorkFromHome].weekdays
               /\ record.weekdayUtilized = RegularShare(WorkFromHome)
               /\ record.weekendUtilized = 0
          ELSE /\ ~record.isExcludedFromUtilization
               /\ record.weekdayUtilized =
                    categories[Field].weekdays + categories[Office].weekdays
                      + categories[WorkFromHome].weekdays
               /\ record.weekdayUtilized =
                    RegularShare(Field) + RegularShare(Office)
                      + RegularShare(WorkFromHome)
               /\ record.weekendUtilized = categories[Overtime].weekends
               /\ record.weekendUtilized = Scale * Cardinality(OvertimeWeekendDays)

\* an exempt employee who worked from home on a weekday and in the field on a
\* weekend day
C19_Witness ==
  /\ Summarized
  /\ employeeName \in EXCLUDED_FROM_UTILIZATION
  /\ output.utilization.categories[WorkFromHome].weekdays = Scale
  /\ output.utilization.categories[Overtime].weekends = Scale
  /\ record.weekdayUtilized = Scale
  /\ record.weekendUtilized = 0

\* ------------------------------------------------------------------ C20

DigitValue(c) == (CHOOSE i \in 1..Len(Digits) : Digits[i] = c) - 1

RECURSIVE ParseNat(_)
ParseNat(str) ==
  IF str = <<>> THEN 0
  ELSE 10 * ParseNat(SubSeq(str, 1, Len(str) - 1)) + DigitValue(str[Len(str)])

\* a decimal numeral with exactly one digit after the point
IsOneDecimal(str) ==
  /\ Len(str) >= 3
  /\ str[Len(str) - 1] = "."
  /\ \A i \in 1..Len(str) : i # Len(str) - 1 => str[i] \in Range(Digits)
  /\ (Len(str) > 3 => str[1] # "0")

\* the number of tenths such a numeral denotes
Tenths(str) ==
  10 * ParseNat(SubSeq(str, 1, Len(str) - 2)) + DigitValue(str[Len(str)])

\* str is utilized / total * 100 to one decimal (utilized in units of 1/Scale),
\* or '0.0' when the total is zero
IsPercentage(str, utilized, total) ==
  IF total > 0
    THEN /\ IsOneDecimal(str)
         /\ 2 * Abs(Tenths(str) * Scale * total - 1000 * utilized) <= Scale * total
    ELSE str = <<"0",".","0">>

InLoop == hook.mapping

HookReturned == InLoop /\ pc = "returned"

\* the value of the function on the arguments of the call in progress
ResultOfArguments ==
  calculateEmployeeUtilization(events, startDate, endDate, employeeName, creationDate,
                               holidayEvents)

\* C21: determinism. Every call of the loop, whatever calls preceded it with
\* the events, name and enrollment date of other employees, returns the value the
\* function has on its own arguments, and a second run of the hook on the same
\* subcalendars, events and window returns the same array as the first.
C21_Determinism ==
  /\ (InLoop /\ pc \in {"done", "summarized", "returned"}) => Returned = ResultOfArguments
  /\ (HookReturned /\ hook.render > 1) => hook.data = hook.previousData

\* the second run has returned, after calls for two employees whose results
\* differ
C21_Witness ==
  /\ HookReturned
  /\ hook.render = MaxRenders
  /\ Len(hook.data) = 2
  /\ hook.data[1].result.categoryDates # hook.data[2].result.categoryDates
  /\ hook.data[1].derived # hook.data[2].derived

\* ------------------------------------------------------------------ C22

\* the object of the hook for one employee, from the subcalendars and events the
\* hook received
HookRecordFor(employee, subcalendars, allEvents) ==
  LET result ==
        calculateEmployeeUtilization(EmployeeEventsOf(allEvents, employee), startDate,
                                     endDate, employee.name, employee.creation_dt,
                                     HookHolidayEvents(subcalendars, allEvents))
  IN  [employee |-> employee,
       derived |-> [derived |-> TRUE] @@ UtilizationRecord(result, employee.name),
       result |-> result]

\* the event is neither the employee's nor a holiday event
IsForeign(event, employee) ==
  /\ employee.id \notin event.subcalendar_ids
  /\ HolidaysId \notin event.subcalendar_ids

\* the lists of events that differ from allEvents in one event of other
\* employees, removed or added
ForeignEventChanges(allEvents, employee) ==
  {RemoveAt(allEvents, i) : i \in {k \in 1..Len(allEvents) : IsForeign(allEvents[k], employee)}}
    \cup {InsertAt(allEvents, i, ev) :
            i \in 1..(Len(allEvents) + 1),
            ev \in {x \in HookEvents : IsForeign(x, employee)}}

\* the events with every event of the employee listed under that employee alone
ListedAlone(allEvents, employee) ==
  [k \in 1..Len(allEvents) |->
     IF employee.id \in allEvents[k].subcalendar_ids
     THEN [allEvents[k] EXCEPT !.subcalendar_ids = {employee.id}]
     ELSE allEvents[k]]

\* the subcalendars that differ in the name and enrollment date of other
\* employees
ForeignMetadataChanges(subcalendars, employee) ==
  {subs \in HookSubcalendars :
     \A k \in 1..Len(subs) :
       /\ subs[k].id = subcalendars[k].id
       /\ subs[k].id \in {employee.id, HolidaysId} => subs[k] = subcalendars[k]}

\* C22: employee independence. The object the hook returns for an employee is
\* the one computed from the events that list the employee's id, the holiday
\* events, the window and the employee's name and enrollment date: it is the
\* same when an event of other employees is removed or added, when the name or
\* enrollment date of another employee changes, and when an event the employee
\* shares with others is listed under the employee alone.
C22_EmployeeIndependence ==
  HookReturned =>
    \A i \in 1..Len(hook.employees) :
      LET employee == hook.employees[i]
      IN  /\ hook.data[i] = HookRecordFor(employee, hook.subcalendars, hook.allEvents)
          /\ \A evs \in ForeignEventChanges(hook.allEvents, employee) :
               hook.data[i] = HookRecordFor(employee, hook.subcalendars, evs)
          /\ \A subs \in ForeignMetadataChanges(hook.subcalendars, employee) :
               hook.data[i] = HookRecordFor(employee, subs, hook.allEvents)
          /\ hook.data[i]
               = HookRecordFor(employee, hook.subcalendars,
                               ListedAlone(hook.allEvents, employee))

\* the hook has returned the objects of two employees; one event is listed under
\* both and is counted for both, another is the second employee's alone
C22_Witness ==
  /\ HookReturned
  /\ Len(hook.data) = 2
  /\ Len(hook.allEvents) = 2
  /\ hook.allEvents[1].subcalendar_ids = {HolidaysId + 1, HolidaysId + 2}
  /\ hook.allEvents[1].status = FieldLabel
  /\ hook.allEvents[2].subcalendar_ids = {HolidaysId + 2}
  /\ hook.allEvents[2].status = Vacation
  /\ hook.allEvents[1].start_dt.day # hook.allEvents[2].start_dt.day
  /\ \A i \in 1..2 : hook.data[i].result.categoryDates[Field] # <<>>
  /\ hook.data[1].result.categoryDates[Vacation] = <<>>
  /\ hook.data[2].result.categoryDates[Vacation] # <<>>

\* ------------------------------------------------------------------ C23

Enumerated == pc = "enumerated"

\* C23: day enumeration. getDatesBetween(start, end) is the ascending list,
\* without gaps or duplicates, of the local midnights of the days from the day
\* of start to the day of end, both included, whatever the times of day of the
\* two instants; it is empty when the day of end is before the day of start.
C23_DayEnumeration ==
  Enumerated =>
    /\ Len(dates) = (IF endDate.day < startDate.day THEN 0
                     ELSE endDate.day - startDate.day + 1)
    /\ \A i \in 1..Len(dates) : dates[i] = LocalMidnight(startDate.day + i - 1)
    /\ \A i \in 1..(Len(dates) - 1) : DateBefore(dates[i], dates[i + 1])
    /\ \A s \in Instants, e \in Instants :
         (s.day = startDate.day /\ e.day = endDate.day) => getDatesBetween(s, e) = dates

\* three days are enumerated from an instant late in the first to an instant at
\* the beginning of the last
C23_Witness ==
  /\ Enumerated
  /\ startDate.tod = EndOfDay
  /\ endDate.tod = 0
  /\ endDate.day = startDate.day + 2
  /\ Len(dates) = 3

\* ------------------------------------------------------------------ C24

\* the events have been grouped by date: the engine has normalised the label of
\* the event
Grouped == pc # "prepare" /\ Len(events) = 1 /\ Len(eventsByDate) = 1

\* the label of the event and the category key the engine derived from it
RawLabel == events[1].status

CategoryKey == eventsByDate[1].statuses[1]

\* the label lower-cased, underscores and hyphens converted to spaces,
\* whitespace runs collapsed, leading and trailing whitespace removed
Cleaned(label) ==
  Trim(CollapseSpaces(ReplaceChar(ReplaceChar(ToLowerCase(label), "_", " "), "-", " ")))

\* the cleaned label mapped through the synonym table
CleanedKey(label) ==
  IF label = <<>> THEN Unknown
  ELSE IF Cleaned(label) \in DOMAIN statusMap THEN statusMap[Cleaned(label)]
  ELSE Cleaned(label)

\* C24: status normalisation. The category key of a label is the label
\* lower-cased, with underscores and hyphens converted to spaces, whitespace runs
\* collapsed and leading and trailing whitespace removed, mapped through the
\* synonym table; a missing label gives 'unknown'; labels with the same cleaned
\* form receive the same key.
C24_StatusNormalisation ==
  /\ normalizeStatus(<<>>) = Unknown
  /\ Grouped =>
       /\ CategoryKey = CleanedKey(RawLabel)
       /\ \A other \in Labels \ {<<>>} :
            (RawLabel # <<>> /\ Cleaned(other) = Cleaned(RawLabel))
              => normalizeStatus(other) = CategoryKey

\* ------------------------------------------------------------------ C26

\* C26: the normalizer is idempotent: the category key it produced for a label
\* over letters, spaces, underscores and hyphens is a fixed point of it.
C26_Idempotent ==
  Grouped => normalizeStatus(CategoryKey) = CategoryKey

\* ------------------------------------------------------------------ C27

\* str is a numeral with one decimal that does not exceed 100
AtMostHundred(str) == IsOneDecimal(str) /\ Tenths(str) <= 1000

\* C27: utilization bounds. In every employee record 0 <= weekdayUtilized <=
\* weekdayTotal and 0 <= weekendUtilized <= weekendTotal; in the result
\* overtime.weekends + vacation.weekends <= utilization.weekends and
\* utilization.weekdays + utilization.weekends <= utilization.totalDays, with
\* equality when there is no enrollment date; neither the weekday nor the
\* weekend percentage exceeds 100.
C27_UtilizationBounds ==
  Summarized =>
    LET u == output.utilization
    IN  /\ 0 <= record.weekdayUtilized
        /\ record.weekdayUtilized <= Scale * record.weekdayTotal
        /\ 0 <= record.weekendUtilized
        /\ record.weekendUtilized <= Scale * record.weekendTotal
        /\ u.categories[Overtime].weekends + u.categories[Vacation].weekends
             <= Scale * u.weekends
        /\ u.weekdays + u.weekends <= u.totalDays
        /\ creationDate = NoDate => u.weekdays + u.weekends = u.totalDays
        /\ AtMostHundred(record.weekdayUtilizationPercentage)
        /\ AtMostHundred(record.weekendUtilizationPercentage)

\* an employee enrolled on the second day of the window who worked on every
\* day since: the first day is in no total, the weekday and the weekend total
\* are reached
C27_Witness ==
  /\ Summarized
  /\ creationDate # NoDate
  /\ employeeName \notin EXCLUDED_FROM_UTILIZATION
  /\ record.weekdayTotal > 0
  /\ record.weekdayUtilized = Scale * record.weekdayTotal
  /\ record.weekendTotal > 0
  /\ record.weekendUtilized = Scale * record.weekendTotal
  /\ output.utilization.weekdays + output.utilization.weekends
       < output.utilization.totalDays
  /\ record.weekdayUtilizationPercentage = <<"1","0","0",".","0">>

\* ------------------------------------------------------------------ C28

\* the dates of the holiday warnings, in the order of the list
WarningDates(warnings) == [i \in 1..Len(warnings) |-> warnings[i].date]

\* C28: unknown bookkeeping. In every result the unknown weekday total is the
\* number of dates of categoryDates.unknown and is categoryBreakdown.unknown;
\* unknownDates is the list categoryDates.unknown; every unaccounted date is in
\* unknownDates; every category date list, and the list of holiday warnings, is
\* in ascending date order with one entry per date at most.
C28_UnknownBookkeeping ==
  Done =>
    /\ output.utilization.categories[Unknown].weekdays
         = Scale * Len(output.categoryDates[Unknown])
    /\ output.validationInfo.categoryBreakdown[Unknown]
         = Scale * Len(output.categoryDates[Unknown])
    /\ output.unknownDates = output.categoryDates[Unknown]
    /\ Range(output.validationInfo.unaccountedDates) \subseteq Range(output.unknownDates)
    /\ IsAscending(output.validationInfo.unaccountedDates)
    /\ \A c \in DOMAIN output.categoryDates : IsAscending(output.categoryDates[c])
    /\ IsAscending(WarningDates(output.holidayWarnings))

\* a result with two unknown dates, the later of which is the one unaccounted
\* date, from two events given in descending date order, the first without
\* status
C28_Witness ==
  /\ Done
  /\ employeeName \notin EXCLUDED_FROM_UTILIZATION
  /\ Len(output.unknownDates) = 2
  /\ Len(output.validationInfo.unaccountedDates) = 1
  /\ output.validationInfo.unaccountedDates[1] = output.unknownDates[2]
  /\ Len(events) = 2
  /\ events[1].status = <<>>
  /\ events[1].start_dt.day > events[2].start_dt.day

\* ------------------------------------------------------------------ C25

Idle == route.inProgress = "none"

OnProtectedPath == route.location.pathname \in ProtectedPaths

\* the location requested when ProtectedRoute redirected to the Login page
Requested == route.location.from

\* C25: route protection. The children of ProtectedRoute are rendered only
\* while isAuthenticated and no interaction is in progress; not authenticated
\* and idle, a protected page redirects to /login carrying the requested
\* location; the Login page, authenticated and idle, navigates to that location,
\* and to '/' when it carries none.
C25_RouteProtection ==
  route.mounted =>
    /\ route.view.kind = "children" => (route.isAuthenticated /\ Idle)
    /\ (OnProtectedPath /\ ~route.isAuthenticated /\ Idle)
         => route.view
              = NavigateTo(Location(LoginPath, "",
                                    [pathname |-> route.location.pathname,
                                     search |-> route.location.search]))
    /\ (route.location.pathname = LoginPath /\ route.isAuthenticated /\ Idle)
         => /\ route.view.kind = "navigate"
            /\ route.view.to.pathname = (IF Requested = NoFrom THEN "/" ELSE Requested.pathname)
            /\ route.view.to.search = (IF Requested = NoFrom THEN "" ELSE Requested.search)

\* ------------------------------------------------------------------ C29

\* the filter was switched on from the selection observed.before, and no
\* selection handler ran since
Untouched == chart.mounted /\ ~chart.observed.touched

\* C29: warnings-only filter round trip. With the data loaded, switching the
\* filter on and then off again, with no selection change in between, leaves
\* the selection S it was switched on from, the empty selection included; while
\* the filter is on since, and some employee has a validation or holiday
\* warning, the selection is exactly the employees with warnings.
C29_WarningsFilterRoundTrip ==
  (DataLoaded /\ Untouched) =>
    /\ (chart.observed.switchedOff /\ ~chart.showWarningsOnly)
         => chart.selectedEmployees = chart.observed.before
    /\ (chart.showWarningsOnly /\ Len(employeesWithWarnings(utilizationData)) > 0)
         => chart.selectedEmployees = employeesWithWarnings(utilizationData)

\* ------------------------------------------------------------------ C30

BothReturned == Done /\ older.returned

\* C30: the older and the newer engine agree on the common fragment. Without
\* enrollment date and holidays, on events at midnight with no status or a
\* normalized one and no vacation on a weekend day, both return the same
\* weekdays, weekends and totalDays, the same weekday and weekend totals of
\* every category of the older engine, and the same validationInfo.isValid.
C30_EnginesAgree ==
  BothReturned =>
    /\ output.utilization.weekdays = older.utilization.weekdays
    /\ output.utilization.weekends = older.utilization.weekends
    /\ output.utilization.totalDays = older.utilization.totalDays
    /\ \A c \in OlderCategories :
         output.utilization.categories[c] = older.utilization.categories[c]
    /\ output.validationInfo.isValid = older.validationInfo.isValid

====
